---- MODULE Spec2Model ----
(***************************************************************************)
(* Booking engine (app/services/booking_service.py, app/models/booking.py), *)
(* conversation-state store (app/services/member_service.py,              *)
(* app/models/message.py) and WhatsApp message handling                    *)
(* (app/routers/webhooks.py, app/flows/) of the gym assistant backend.     *)
(*                                                                         *)
(* Time is counted in minutes.  Ids are the 1-based index of a row in its  *)
(* table; rows are never deleted, so the index is also the creation order. *)
(* A nullable integer column holds NoPosition / NoTime when it is NULL.    *)
(***************************************************************************)
EXTENDS Integers, Sequences, FiniteSets, TLC

VARIABLES
    classes,    \* table "classes": sequence of Class rows
    bookings,   \* table "class_bookings": sequence of ClassBooking rows
    now,        \* datetime.utcnow(), in minutes
    dialect,    \* database backend selected by settings.database_url
    result,     \* what the last service call returned (or that it raised)
    sessions,   \* per request worker: the ORM session of a call in progress
    conv,       \* table "conversation_states": sequence of rows
    members,    \* table "members": sequence of Member rows
    settings,   \* app.config.settings, as far as the model reads it
    http        \* what the last POST to the WhatsApp webhook did

\* the state that only the message handling writes
chat == <<members, settings, http>>

vars == <<classes, bookings, now, dialect, result, sessions, conv, members, settings, http>>

----------------------------------------------------------------------------
(* Bounds of the model *)

MaxClasses == 2
MaxBookings == 2
MaxQueue == 4
MaxHeld == 3
MaxMarked == 1
MaxCheckins == 2

Members == {"m1", "m2", "m3"}
TwoMembers == {"m1", "m2"}
Workers == {"w1", "w2"}

\* The class sessions staff create: Yoga and HIIT start together, HIIT runs
\* long enough to reach into Spin, Yoga is over before Spin starts.
Catalogue ==
    {[name |-> "Yoga", scheduled_at |-> 300, duration_mins |-> 45,  capacity |-> 1],
     [name |-> "HIIT", scheduled_at |-> 300, duration_mins |-> 240, capacity |-> 2],
     [name |-> "Spin", scheduled_at |-> 480, duration_mins |-> 45,  capacity |-> 1]}

\* The instants at which calls are made: 4 hours before Yoga, at its start,
\* and an hour into it (2 hours before Spin).
Instants == {60, 300, 360}

SingleSeat == {c \in Catalogue : c.name = "Yoga"}
Overlapping == {c \in Catalogue : c.name \in {"Yoga", "HIIT"}}

\* Phone numbers as they arrive, character by character: two spellings of
\* one number and one other number
RawPhones == {<<"+", "1">>, <<"\t", "1", " ">>, <<"2">>}
Whitespace == {" ", "\t", "\n"}
Flows == {"onboarding", "booking", "checkin"}
Steps == {"goal_selection", "select_class"}
NoneValue == "None"

\* A nullable JSON column holding a dict: NULL, or the dict as its set of
\* <<key, value>> items
NoData == [null |-> TRUE, items |-> {}]
Dict(items) == [null |-> FALSE, items |-> items]
EmptyDict == Dict({})
DataValues == {NoData, Dict({<<"goal", "weight_loss">>})}

(* Program constants *)

NoPosition == 0
NoTime == -1
CancelWindowMins == 240
PrefilterMins == 120
MAX_RETRIES == 3
RETRY_DELAY == 1

BOOKED == "booked"
WAITLIST == "waitlist"
CANCELLED == "cancelled"
ATTENDED == "attended"
NO_SHOW == "no_show"

ActiveStatuses == {BOOKED, WAITLIST}

----------------------------------------------------------------------------
(* Rows and queries *)

ClassIds == 1..Len(classes)
BookingIds == 1..Len(bookings)

IsActive(b) == b.status \in ActiveStatuses

ClassEnd(c) == c.scheduled_at + c.duration_mins

\* The value a call returns: the keys of the returned dict ("booking" and
\* "class" by id), raised = TRUE when the call raised instead of returning.
NoResult == [op |-> "none", success |-> FALSE, raised |-> FALSE, error |-> "",
             status |-> "", waitlist_position |-> NoPosition,
             conflict_name |-> "", conflict_time |-> NoTime,
             class_id |-> 0, booking_id |-> 0]

\* (mutation of Failure: the failure is raised instead of returned)
FailureRaised(op, err) == [NoResult EXCEPT !.op = op, !.error = err, !.raised = TRUE]

Failure(op, err) == [NoResult EXCEPT !.op = op, !.error = err]

\* (mutation of ExistingBookings: a waitlisted booking is not looked for)
ExistingBookingsBookedOnly(bks, m, cid) ==
    {i \in 1..Len(bks) : /\ bks[i].member_id = m
                         /\ bks[i].class_id = cid
                         /\ bks[i].status = BOOKED}

\* book_class, "Check if already booked for THIS class"
ExistingBookings(bks, m, cid) ==
    {i \in 1..Len(bks) : /\ bks[i].member_id = m
                         /\ bks[i].class_id = cid
                         /\ IsActive(bks[i])}

\* book_class, first overlap query (interval arithmetic done by the database)
OverlapQuery(cls, bks, m, cid) ==
    {i \in 1..Len(bks) :
        /\ bks[i].member_id = m
        /\ IsActive(bks[i])
        /\ ~cls[bks[i].class_id].is_cancelled
        /\ cls[bks[i].class_id].scheduled_at < ClassEnd(cls[cid])
        /\ ClassEnd(cls[bks[i].class_id]) > cls[cid].scheduled_at}

\* book_class, second query: window of two hours around the class, then the
\* interval test in Python
FallbackQuery(cls, bks, m, cid) ==
    {i \in 1..Len(bks) :
        /\ bks[i].member_id = m
        /\ IsActive(bks[i])
        /\ ~cls[bks[i].class_id].is_cancelled
        /\ cls[bks[i].class_id].scheduled_at >= cls[cid].scheduled_at - PrefilterMins
        /\ cls[bks[i].class_id].scheduled_at <= ClassEnd(cls[cid]) + PrefilterMins
        /\ cls[cid].scheduled_at < ClassEnd(cls[bks[i].class_id])
        /\ ClassEnd(cls[cid]) > cls[bks[i].class_id].scheduled_at}

\* (mutation of ConflictingBookings: only the query with the two-hour window)
ConflictingBookingsWindowOnly(cls, bks, m, cid) == FallbackQuery(cls, bks, m, cid)

\* the rows one of which book_class ends up with in conflicting_booking
ConflictingBookings(cls, bks, m, cid) ==
    IF OverlapQuery(cls, bks, m, cid) # {}
    THEN OverlapQuery(cls, bks, m, cid)
    ELSE FallbackQuery(cls, bks, m, cid)

\* (mutation of WaitlistHeads: the waitlist query selects no row)
WaitlistHeadsNone(bks, cid) == {}

\* _promote_from_waitlist: rows that ORDER BY waitlist_position may put first
WaitlistHeads(bks, cid) ==
    LET wl == {i \in 1..Len(bks) : bks[i].class_id = cid /\ bks[i].status = WAITLIST}
    IN {i \in wl : \A j \in wl : bks[i].waitlist_position <= bks[j].waitlist_position}

\* rows whose attendance has been recorded
Marked(bks) == {i \in 1..Len(bks) : bks[i].status \in {ATTENDED, NO_SHOW}}

\* (mutation of HasFreeSeat: the comparison admits one booking too many)
HasFreeSeatOffByOne(c) == c.booked_count <= c.capacity

\* book_class, "Determine status": a seat is free
HasFreeSeat(c) == c.booked_count < c.capacity

\* (mutation of Max0: the decremented counter is put back to what it was)
Max0Kept(n) == IF n < 0 THEN 0 ELSE n + 1

Max0(n) == IF n < 0 THEN 0 ELSE n

\* nothing was posted to the webhook yet
NoRequest == [status |-> 0, handled |-> "", from |-> <<>>, content |-> "",
              message_id |-> 0, route |-> "", flow |-> "", step |-> "",
              classified |-> FALSE, sent |-> "", raised |-> ""]

----------------------------------------------------------------------------
(* Initial state *)

\* empty tables; the settings differ from one deployment to the other
InitWith(secrets) ==
    /\ classes = <<>>
    /\ bookings = <<>>
    /\ now \in Instants /\ \A t \in Instants : now <= t
    /\ dialect \in {"postgresql", "sqlite"}
    /\ result = NoResult
    /\ sessions = [w \in Workers |-> [pc |-> "idle"]]
    /\ conv = <<>>
    /\ members = <<>>
    /\ settings \in [whatsapp_app_secret : secrets]
    /\ http = NoRequest

\* whatsapp_app_secret: str = ""
Init == InitWith({""})

----------------------------------------------------------------------------
(* BookingService, one call at a time *)

\* create_class: INSERT a Class row; counters and flag take column defaults
CreateClass(name, sched, dur, cap) ==
    /\ classes' = Append(classes,
          [name |-> name, scheduled_at |-> sched,
           duration_mins |-> dur, capacity |-> cap, booked_count |-> 0,
           waitlist_count |-> 0, is_cancelled |-> FALSE])
    /\ result' = [NoResult EXCEPT !.op = "create_class", !.success = TRUE,
                                  !.class_id = Len(classes) + 1]
    /\ UNCHANGED <<bookings, now, dialect, sessions, conv, chat>>

\* What book_class decides from the rows it reads: the returned value, and
\* when it goes on to commit, the dirty counter column with its new value
\* and the ClassBooking row to insert.
BookOutcomes(cls, bks, m, cid, t, dia) ==
    LET fail(err) == {[res |-> Failure("book_class", err), commit |-> FALSE]}
    IN
    IF cid \notin 1..Len(cls) THEN fail("Class not found")
    ELSE IF cls[cid].is_cancelled THEN fail("Class has been cancelled")
    ELSE IF cls[cid].scheduled_at < t THEN fail("Class has already started")
    ELSE IF ExistingBookings(bks, m, cid) # {} THEN
        {[res |-> [Failure("book_class", "Already booked for this class")
                     EXCEPT !.booking_id = e],
          commit |-> FALSE] : e \in ExistingBookings(bks, m, cid)}
    ELSE IF dia = "sqlite" THEN
        \* make_interval is not a function of SQLite: the query raises
        {[res |-> [Failure("book_class", "OperationalError")
                     EXCEPT !.raised = TRUE],
          commit |-> FALSE]}
    ELSE IF ConflictingBookings(cls, bks, m, cid) # {} THEN
        {[res |-> [Failure("book_class", "Cannot book overlapping classes")
                     EXCEPT !.conflict_name = cls[bks[k].class_id].name,
                            !.conflict_time = cls[bks[k].class_id].scheduled_at],
          commit |-> FALSE] : k \in ConflictingBookings(cls, bks, m, cid)}
    ELSE IF HasFreeSeat(cls[cid]) THEN
        {[res |-> [NoResult EXCEPT !.op = "book_class", !.success = TRUE,
                                   !.class_id = cid, !.status = BOOKED],
          commit |-> TRUE, col |-> "booked_count", val |-> cls[cid].booked_count + 1,
          row |-> [member_id |-> m, class_id |-> cid, status |-> BOOKED,
                   waitlist_position |-> NoPosition, cancelled_at |-> NoTime]]}
    ELSE
        {[res |-> [NoResult EXCEPT !.op = "book_class", !.success = TRUE,
                                   !.class_id = cid, !.status = WAITLIST,
                                   !.waitlist_position = cls[cid].waitlist_count + 1],
          commit |-> TRUE, col |-> "waitlist_count", val |-> cls[cid].waitlist_count + 1,
          row |-> [member_id |-> m, class_id |-> cid, status |-> WAITLIST,
                   waitlist_position |-> cls[cid].waitlist_count + 1,
                   cancelled_at |-> NoTime]]}

\* UPDATE classes SET <col> = <val> WHERE id = cid
WriteCounter(cls, cid, col, val) ==
    IF col = "booked_count"
    THEN [cls EXCEPT ![cid].booked_count = val]
    ELSE [cls EXCEPT ![cid].waitlist_count = val]

\* db.add(booking); db.commit() of book_class
BookCommit(o) ==
    /\ classes' = WriteCounter(classes, o.row.class_id, o.col, o.val)
    /\ bookings' = Append(bookings, o.row)
    /\ result' = [o.res EXCEPT !.booking_id = Len(bookings) + 1]

BookClass(m, cid) ==
    /\ \E o \in BookOutcomes(classes, bookings, m, cid, now, dialect) :
          IF o.commit
          THEN BookCommit(o)
          ELSE /\ result' = o.res
               /\ UNCHANGED <<classes, bookings>>
    /\ UNCHANGED <<now, dialect, sessions, conv, chat>>

\* the rows cancel_booking's query can return with .first()
CancelCandidates(bks, m, bid, cid) ==
    {i \in 1..Len(bks) :
        /\ bks[i].member_id = m
        /\ IF bid # 0 THEN i = bid ELSE bks[i].class_id = cid
        /\ IsActive(bks[i])}

\* (mutation of InsideCancelWindow: only a started class refuses)
InsideCancelWindowStartedOnly(c, t) == c.scheduled_at - t < 0

\* hours_until < 4
InsideCancelWindow(c, t) == c.scheduled_at - t < CancelWindowMins

\* (mutation of PromoteFromWaitlist: waitlist_count is not decremented)
PromoteFromWaitlistKeepCount(cls, bks, cid) ==
    IF cls[cid].waitlist_count = 0 \/ WaitlistHeads(bks, cid) = {}
    THEN {<<cls, bks, 0>>}
    ELSE {<<[cls EXCEPT ![cid].booked_count = @ + 1],
            [bks EXCEPT ![h].status = BOOKED, ![h].waitlist_position = NoPosition],
            h>> : h \in WaitlistHeads(bks, cid)}

\* _promote_from_waitlist applied to tables (cls, bks): the possible
\* <<tables after, promoted booking id or 0>>
PromoteFromWaitlist(cls, bks, cid) ==
    IF cls[cid].waitlist_count = 0 \/ WaitlistHeads(bks, cid) = {}
    THEN {<<cls, bks, 0>>}
    ELSE {<<[cls EXCEPT ![cid].booked_count = @ + 1, ![cid].waitlist_count = @ - 1],
            [bks EXCEPT ![h].status = BOOKED, ![h].waitlist_position = NoPosition],
            h>> : h \in WaitlistHeads(bks, cid)}

\* ClassBooking.cancel
CancelRow(b, t) == [b EXCEPT !.status = CANCELLED, !.cancelled_at = t]

CancelBooking(m, bid, cid) ==
    /\ UNCHANGED <<now, dialect, sessions, conv, chat>>
    /\ IF bid = 0 /\ cid = 0 THEN
          /\ result' = Failure("cancel_booking", "Provide booking_id or class_id")
          /\ UNCHANGED <<classes, bookings>>
       ELSE IF CancelCandidates(bookings, m, bid, cid) = {} THEN
          /\ result' = Failure("cancel_booking", "Booking not found")
          /\ UNCHANGED <<classes, bookings>>
       ELSE \E k \in CancelCandidates(bookings, m, bid, cid) :
          LET c == bookings[k].class_id IN
          IF InsideCancelWindow(classes[c], now) THEN
             /\ result' = Failure("cancel_booking",
                                  "Cannot cancel within 4 hours of class")
             /\ UNCHANGED <<classes, bookings>>
          ELSE IF bookings[k].status = BOOKED THEN
             \E p \in PromoteFromWaitlist(
                        [classes EXCEPT ![c].booked_count = Max0(@ - 1)], bookings, c) :
                /\ classes' = p[1]
                /\ bookings' = [p[2] EXCEPT ![k] = CancelRow(@, now)]
                /\ result' = [NoResult EXCEPT !.op = "cancel_booking", !.success = TRUE,
                                              !.class_id = c]
          ELSE
             /\ classes' = [classes EXCEPT ![c].waitlist_count = Max0(@ - 1)]
             /\ bookings' = [bookings EXCEPT ![k] = CancelRow(@, now)]
             /\ result' = [NoResult EXCEPT !.op = "cancel_booking", !.success = TRUE,
                                           !.class_id = c]

\* the bulk UPDATE of cancel_class
CancelClassRows(bks, cid) ==
    [i \in 1..Len(bks) |->
        IF bks[i].class_id = cid /\ bks[i].status = BOOKED
        THEN [bks[i] EXCEPT !.status = CANCELLED]
        ELSE bks[i]]

CancelClass(cid) ==
    /\ UNCHANGED <<now, dialect, sessions, conv, chat>>
    /\ IF cid \notin ClassIds THEN
          /\ result' = Failure("cancel_class", "Class not found")
          /\ UNCHANGED <<classes, bookings>>
       ELSE
          /\ classes' = [classes EXCEPT ![cid].is_cancelled = TRUE]
          /\ bookings' = CancelClassRows(bookings, cid)
          /\ result' = [NoResult EXCEPT !.op = "cancel_class", !.success = TRUE,
                                        !.class_id = cid]

\* mark_attended / mark_no_show
MarkRow(b, attended) == [b EXCEPT !.status = IF attended THEN ATTENDED ELSE NO_SHOW]

MarkAttendance(bid, attended) ==
    /\ UNCHANGED <<classes, now, dialect, sessions, conv, chat>>
    /\ IF bid \notin BookingIds THEN
          /\ result' = Failure("mark_attendance", "Booking not found")
          /\ UNCHANGED bookings
       ELSE
          /\ bookings' = [bookings EXCEPT ![bid] = MarkRow(@, attended)]
          /\ result' = [NoResult EXCEPT !.op = "mark_attendance", !.success = TRUE,
                                        !.booking_id = bid]

\* the clock advances between calls
Tick ==
    /\ \E t \in Instants : t > now /\ now' = t
    /\ UNCHANGED <<classes, bookings, dialect, result, sessions, conv, chat>>

----------------------------------------------------------------------------
(* BookingService called from two request workers at once.  Every request  *)
(* has its own Session (get_db); nothing locks a row between the SELECTs   *)
(* of a call and its commit, and the flush writes the counter values the   *)
(* session computed from what it had read.  A step is one round of reads   *)
(* or one commit.                                                          *)

Idle == [pc |-> "idle"]

\* book_class up to db.add(booking): the reads and the decision
BookBegin(w, m, cid) ==
    /\ sessions[w].pc = "idle"
    /\ \E o \in BookOutcomes(classes, bookings, m, cid, now, dialect) :
          IF o.commit
          THEN /\ sessions' = [sessions EXCEPT ![w] = [pc |-> "book_commit", o |-> o]]
               /\ UNCHANGED result
          ELSE /\ result' = o.res
               /\ UNCHANGED sessions
    /\ UNCHANGED <<classes, bookings, now, dialect, conv, chat>>

\* db.commit() of book_class
BookEnd(w) ==
    /\ sessions[w].pc = "book_commit"
    /\ BookCommit(sessions[w].o)
    /\ sessions' = [sessions EXCEPT ![w] = Idle]
    /\ UNCHANGED <<now, dialect, conv, chat>>

\* cancel_booking up to the counter update: the booking and class are read,
\* the window is checked, the counters change in the session only
CancelBegin(w, m, bid, cid) ==
    /\ sessions[w].pc = "idle"
    /\ UNCHANGED <<classes, bookings, now, dialect, conv, chat>>
    /\ IF bid = 0 /\ cid = 0 THEN
          /\ result' = Failure("cancel_booking", "Provide booking_id or class_id")
          /\ UNCHANGED sessions
       ELSE IF CancelCandidates(bookings, m, bid, cid) = {} THEN
          /\ result' = Failure("cancel_booking", "Booking not found")
          /\ UNCHANGED sessions
       ELSE \E k \in CancelCandidates(bookings, m, bid, cid) :
          LET c == bookings[k].class_id IN
          IF InsideCancelWindow(classes[c], now) THEN
             /\ result' = Failure("cancel_booking",
                                  "Cannot cancel within 4 hours of class")
             /\ UNCHANGED sessions
          ELSE IF bookings[k].status = BOOKED THEN
             /\ sessions' = [sessions EXCEPT ![w] =
                    [pc |-> "cancel_promote", k |-> k, c |-> c,
                     loaded_booked |-> classes[c].booked_count,
                     booked_count |-> Max0(classes[c].booked_count - 1),
                     loaded_waitlist |-> classes[c].waitlist_count,
                     waitlist_count |-> classes[c].waitlist_count]]
             /\ UNCHANGED result
          ELSE
             /\ sessions' = [sessions EXCEPT ![w] =
                    [pc |-> "cancel_commit", k |-> k, c |-> c,
                     loaded_booked |-> classes[c].booked_count,
                     booked_count |-> classes[c].booked_count,
                     loaded_waitlist |-> classes[c].waitlist_count,
                     waitlist_count |-> Max0(classes[c].waitlist_count - 1)]]
             /\ UNCHANGED result

\* the flush: UPDATE classes with the columns whose value in the session
\* differs from the loaded one
FlushClass(cls, s) ==
    [cls EXCEPT ![s.c].booked_count =
                    IF s.booked_count # s.loaded_booked THEN s.booked_count ELSE @,
                ![s.c].waitlist_count =
                    IF s.waitlist_count # s.loaded_waitlist THEN s.waitlist_count ELSE @]

\* _promote_from_waitlist inside cancel_booking: the waitlist is read now;
\* a promotion is committed on its own, before the booking is cancelled
CancelPromote(w) ==
    LET s == sessions[w] IN
    /\ s.pc = "cancel_promote"
    /\ UNCHANGED <<now, dialect, result, conv, chat>>
    /\ IF s.waitlist_count = 0 \/ WaitlistHeads(bookings, s.c) = {} THEN
          /\ sessions' = [sessions EXCEPT ![w].pc = "cancel_commit"]
          /\ UNCHANGED <<classes, bookings>>
       ELSE \E h \in WaitlistHeads(bookings, s.c) :
          LET t == [s EXCEPT !.booked_count = @ + 1, !.waitlist_count = @ - 1] IN
          /\ bookings' = [bookings EXCEPT ![h].status = BOOKED,
                                          ![h].waitlist_position = NoPosition]
          /\ classes' = FlushClass(classes, t)
          \* the commit expires the session: nothing is left to flush
          /\ sessions' = [sessions EXCEPT ![w] =
                 [t EXCEPT !.pc = "cancel_commit",
                           !.loaded_booked = t.booked_count,
                           !.loaded_waitlist = t.waitlist_count]]

\* booking.cancel(); db.commit() of cancel_booking
CancelEnd(w) ==
    LET s == sessions[w] IN
    /\ s.pc = "cancel_commit"
    /\ classes' = FlushClass(classes, s)
    /\ bookings' = [bookings EXCEPT ![s.k] = CancelRow(@, now)]
    /\ result' = [NoResult EXCEPT !.op = "cancel_booking", !.success = TRUE,
                                  !.class_id = s.c]
    /\ sessions' = [sessions EXCEPT ![w] = Idle]
    /\ UNCHANGED <<now, dialect, conv, chat>>

----------------------------------------------------------------------------
(* MemberService: conversation state, one row per phone *)

\* str.replace(ch, "")
Remove(p, ch) == SelectSeq(p, LAMBDA x : x # ch)

\* str.strip()
RECURSIVE LStrip(_)
LStrip(p) == IF p # <<>> /\ Head(p) \in Whitespace THEN LStrip(Tail(p)) ELSE p

RECURSIVE RStrip(_)
RStrip(p) ==
    IF p # <<>> /\ p[Len(p)] \in Whitespace THEN RStrip(SubSeq(p, 1, Len(p) - 1)) ELSE p

\* (mutation of Normalize: the leading "+" is kept)
NormalizeKeepPlus(p) == LStrip(RStrip(Remove(p, " ")))

\* phone.replace("+", "").replace(" ", "").strip()
Normalize(p) == LStrip(RStrip(Remove(Remove(p, "+"), " ")))

\* data or {}
OrEmpty(d) == IF d.null \/ d.items = {} THEN EmptyDict ELSE d

\* get_conversation_state: .first() of the rows with the normalized phone
ConvRows(rows, phone) == {i \in 1..Len(rows) : rows[i].phone = Normalize(phone)}

SetConversationState(phone, flow, step, data) ==
    /\ IF ConvRows(conv, Normalize(phone)) # {}
       THEN \E i \in ConvRows(conv, Normalize(phone)) :
               conv' = [conv EXCEPT ![i].current_flow = flow,
                                    ![i].current_step = step,
                                    ![i].flow_data = OrEmpty(data)]
       ELSE conv' = Append(conv, [phone |-> Normalize(phone), current_flow |-> flow,
                                  current_step |-> step, flow_data |-> OrEmpty(data)])
    /\ result' = [NoResult EXCEPT !.op = "set_conversation_state", !.success = TRUE]
    /\ UNCHANGED <<classes, bookings, now, dialect, sessions, chat>>

\* (mutation of ClearFlow: flow_data is kept)
ClearFlowKeepData(row) == [row EXCEPT !.current_flow = NoneValue, !.current_step = NoneValue]

\* ConversationState.clear_flow
ClearFlow(row) == [row EXCEPT !.current_flow = NoneValue, !.current_step = NoneValue,
                              !.flow_data = NoData]

ClearConversationState(phone) ==
    /\ IF ConvRows(conv, phone) # {}
       THEN \E i \in ConvRows(conv, phone) : conv' = [conv EXCEPT ![i] = ClearFlow(@)]
       ELSE UNCHANGED conv
    /\ result' = [NoResult EXCEPT !.op = "clear_conversation_state", !.success = TRUE]
    /\ UNCHANGED <<classes, bookings, now, dialect, sessions, chat>>

----------------------------------------------------------------------------
(* WhatsApp message handling: receive_message (routers/webhooks.py),       *)
(* validate_whatsapp_signature (services/security.py), MessageHandler      *)
(* (flows/handlers.py), OnboardingFlow and BookingFlow.  One POST is one   *)
(* step.  Message contents are lower-case, stripped strings of a small     *)
(* vocabulary; what the code computes from a content (substring tests,     *)
(* float(), int(), prefixes) is tabulated for that vocabulary.             *)

\* message["from"]
Phones == {<<"1">>, <<"2">>}

\* message["content"]
Contents == {"hi", "hours?", "call me", "goal_weight_loss", "diet_veg", "72", "150",
             "nan", "inf", "class_1", "book yoga", "book_confirm", "book_cancel"}

\* message["message_id"]
MessageIds == {1, 2}

\* message["type"]
MessageTypes == {"text", "image"}

\* Member.id of the n-th row of table "members"
MemberIds == <<"m1", "m2", "m3">>

\* str(Class.id) of the n-th row of table "classes"
IdStr == <<"1", "2", "3">>

\* UUID(s): the class id written s, 0 when no class has it
StrToId(s) == IF \E i \in 1..Len(IdStr) : IdStr[i] = s
              THEN CHOOSE i \in 1..Len(IdStr) : IdStr[i] = s
              ELSE 0

\* .first() of a result with at most one row
The(S) == CHOOSE x \in S : TRUE

\* kw in content, for the keywords the handlers test
Occurs(content) ==
    CASE content = "goal_weight_loss" -> {"goal_weight_loss", "weight"}
      [] content = "diet_veg"         -> {"diet_veg"}
      [] content = "book_confirm"     -> {"book_confirm", "confirm", "book"}
      [] content = "book_cancel"      -> {"book_cancel", "cancel", "book"}
      [] content = "book yoga"        -> {"book", "yoga"}
      [] content = "call me"          -> {"call me"}
      [] OTHER                        -> {}

Has(content, kw) == kw \in Occurs(content)

\* content.startswith(prefix)
StartsWith(content, prefix) ==
    \/ prefix = "goal_"  /\ content = "goal_weight_loss"
    \/ prefix = "diet_"  /\ content = "diet_veg"
    \/ prefix = "class_" /\ content = "class_1"
    \/ prefix = "energy_" /\ content \in {"energy_5", "energy_x"}

\* content.replace("class_", "")
StripClassPrefix(content) == IF content = "class_1" THEN "1" ELSE content

\* Class.name.lower()
LowerName(name) ==
    CASE name = "Yoga" -> "yoga"
      [] name = "HIIT" -> "hiit"
      [] name = "Spin" -> "spin"

\* float values that are not finite
NaN == -1
Infinity == 1000000

\* float(s): the value, or ValueError
ParseFloat(s) ==
    CASE s = "72"  -> [ok |-> TRUE, val |-> 72]
      [] s = "150" -> [ok |-> TRUE, val |-> 150]
      [] s = "nan" -> [ok |-> TRUE, val |-> NaN]
      [] s = "inf" -> [ok |-> TRUE, val |-> Infinity]
      [] OTHER     -> [ok |-> FALSE, val |-> 0]

\* int(s): the value, or ValueError
ParseInt(s) ==
    CASE s = "72"  -> [ok |-> TRUE, val |-> 72]
      [] s = "150" -> [ok |-> TRUE, val |-> 150]
      [] s = "5"   -> [ok |-> TRUE, val |-> 5]
      [] OTHER     -> [ok |-> FALSE, val |-> 0]

\* content.split("_")[1] of a reply that starts with "energy_"
SplitEnergy(content) == IF content = "energy_5" THEN "5" ELSE "x"

\* content.replace("diet_", "")
StripDietPrefix(content) == IF content = "diet_veg" THEN "veg" ELSE content

\* int(x) of a float x: ValueError for nan, OverflowError for infinity
IntOfFloat(x) ==
    IF x = NaN THEN [ok |-> FALSE, exc |-> "ValueError", val |-> 0]
    ELSE IF x = Infinity THEN [ok |-> FALSE, exc |-> "OverflowError", val |-> 0]
    ELSE [ok |-> TRUE, exc |-> "", val |-> x]

\* a < b on floats: false as soon as one side is nan
Less(a, b) == a # NaN /\ b # NaN /\ a < b

\* the bounds of _handle_weight, _handle_height and _handle_age
MinWeight == 30
MaxWeight == 250
MinHeight == 100
MaxHeight == 250
MinAge == 14
MaxAge == 100

\* get_upcoming_classes(days=3) looks this many minutes ahead
UpcomingMins == 3 * 24 * 60

\* _find_matching_class allows the parsed time this many minutes of slack
MatchSlackMins == 30

\* ai_engine.classify_intent escalates on these phrases (among others)
Escalates(content) == Has(content, "call me")

\* what ai_engine.classify_intent can answer otherwise: the intent that
\* opens the booking flow, or one answered without state
Intents == {"booking", "faq"}

\* parse_booking_details could not parse the message
NoParse == [ok |-> FALSE, class_name |-> "", time |-> NoTime]

\* what ai_engine.parse_booking_details can answer
ParseResults ==
    {NoParse,
     [ok |-> TRUE, class_name |-> "yoga", time |-> NoTime],
     [ok |-> TRUE, class_name |-> "yoga", time |-> 900],
     [ok |-> TRUE, class_name |-> "zumba", time |-> NoTime]}

\* the X-Hub-Signature-256 headers tried on the webhook
HeaderKinds == {"absent", "empty", "md5", "no_equals", "good", "wrong_key", "trailing"}

\* hmac.new(key, msg, sha256).hexdigest(): a value that names key and msg
Hmac(key, msg) == <<"hmac", key, msg>>

\* the raw body of a request
Body(req) == <<req.from, req.content, req.type, req.message_id>>

\* the header of a request, cut at its "=" signs; <<>> when there is none
HeaderOf(req, secret) ==
    CASE req.header = "absent"    -> <<>>
      [] req.header = "empty"     -> <<"">>
      [] req.header = "md5"       -> <<"md5", Hmac(secret, Body(req))>>
      [] req.header = "no_equals" -> <<"sha256">>
      [] req.header = "good"      -> <<"sha256", Hmac(secret, Body(req))>>
      [] req.header = "wrong_key" -> <<"sha256", Hmac("guess", Body(req))>>
      [] req.header = "trailing"  -> <<"sha256", Hmac(secret, Body(req)), "junk">>

\* validate_whatsapp_signature: 200 to go on, 403 to reject
ValidateSignature(secret, header, body) ==
    IF secret = "" THEN 200
    ELSE IF header = <<>> \/ header = <<"">> THEN 403
    ELSE IF ~(Len(header) >= 2 /\ header[1] = "sha256") THEN 403
    ELSE IF header[2] # Hmac(secret, body) THEN 403
    ELSE 200

----------------------------------------------------------------------------
(* The handlers as functions of the tables D = [members, conv, classes,   *)
(* bookings]: each gives the set of its possible outcomes.                *)

\* an outcome: tables after, what is sent back, the exception that escaped
Out(D, sent) == [db |-> D, sent |-> sent, raised |-> "", route |-> "",
                 flow |-> "", step |-> "", classified |-> FALSE]

Raise(D, exc) == [Out(D, "") EXCEPT !.raised = exc]

\* d[k] = v on a dict
Put(d, k, v) == Dict({p \in d.items : p[1] # k} \cup {<<k, v>>})

\* d.get(k): the set of values under k (empty for None)
Get(d, k) == {p[2] : p \in {q \in d.items : q[1] = k}}

\* bool(d) of a JSON column value
Truthy(d) == ~d.null /\ d.items # {}

\* What the flush writes to flow_data when the handler assigns the dict it
\* changed in place: unchanged in place means changed against a fresh load,
\* but the very object the session loaded compares equal to itself.
Persisted(stored, data) == IF Truthy(stored) THEN stored ELSE data

\* get_by_phone
GetByPhone(mem, phone) ==
    {i \in 1..Len(mem) :
        mem[i].phone \in {phone, Normalize(phone), <<"+">> \o Normalize(phone)}}

\* _start_onboarding: the name a new lead is created with
NewMemberName(name) == IF name = "Unknown" THEN "New Member" ELSE name

\* member_service.create
CreateMember(mem, phone, name) ==
    Append(mem, [phone |-> Normalize(phone), name |-> name,
                 onboarding_completed |-> FALSE, onboarding_step |-> "welcome",
                 profile |-> NoData, checkins |-> <<>>])

\* set_conversation_state, as a function of the table
SetRows(rows, phone, flow, step, data) ==
    IF ConvRows(rows, Normalize(phone)) # {}
    THEN [rows EXCEPT ![The(ConvRows(rows, Normalize(phone)))] =
              [@ EXCEPT !.current_flow = flow, !.current_step = step,
                        !.flow_data = OrEmpty(data)]]
    ELSE Append(rows, [phone |-> Normalize(phone), current_flow |-> flow,
                       current_step |-> step, flow_data |-> OrEmpty(data)])

\* clear_conversation_state, as a function of the table
ClearRows(rows, phone) ==
    IF ConvRows(rows, phone) # {}
    THEN [rows EXCEPT ![The(ConvRows(rows, phone))] = ClearFlow(@)]
    ELSE rows

\* (mutation of OnboardingStart: the welcome is sent, no state is stored)
OnboardingStartStateless(D, mi) == {Out(D, "onboarding_welcome")}

\* OnboardingFlow.start
OnboardingStart(D, mi) ==
    {Out([D EXCEPT !.conv = SetRows(@, D.members[mi].phone, "onboarding", "goal_selection",
                                    Dict({<<"name", D.members[mi].name>>}))],
         "onboarding_welcome")}

\* the step handlers advance like this: member.onboarding_step, commit,
\* set_conversation_state with the dict that got the new key
Advance(D, mi, step, data, sent) ==
    {Out([D EXCEPT !.members[mi].onboarding_step = step,
                   !.conv = SetRows(@, D.members[mi].phone, "onboarding", step, data)],
         sent)}

\* _handle_goal_selection
HandleGoalSelection(D, mi, content, data) ==
    LET goal ==
          IF \E k \in {"goal_weight_loss", "weight", "lose", "fat"} : Has(content, k)
          THEN "weight_loss"
          ELSE IF \E k \in {"goal_muscle", "muscle", "build", "gain"} : Has(content, k)
          THEN "muscle_gain"
          ELSE IF \E k \in {"goal_fitness", "fit", "health"} : Has(content, k)
          THEN "general_fitness"
          ELSE ""
    IN IF goal = "" THEN {Out(D, "goal_reprompt")}
       ELSE Advance(D, mi, "dietary_preference", Put(data, "goal", goal), "diet_question")

\* _handle_dietary_preference
HandleDietaryPreference(D, mi, content, data) ==
    LET diet ==
          IF Has(content, "diet_veg") \/ content = "veg" \/ Has(content, "vegetarian")
          THEN "veg"
          ELSE IF \E k \in {"diet_nonveg", "non", "chicken", "meat"} : Has(content, k)
          THEN "non_veg"
          ELSE IF \E k \in {"diet_egg", "egg"} : Has(content, k)
          THEN "eggetarian"
          ELSE ""
    IN IF diet = "" THEN {Out(D, "diet_reprompt")}
       ELSE Advance(D, mi, "weight", Put(data, "diet_pref", diet), "weight_question")

\* _handle_weight; a nan in the dict is no JSON for PostgreSQL, whose
\* UPDATE fails after member.onboarding_step was committed
HandleWeight(D, mi, content, data, dia) ==
    LET w == ParseFloat(content) IN
    IF ~w.ok THEN {Out(D, "weight_reprompt")}
    ELSE IF Less(w.val, MinWeight) \/ Less(MaxWeight, w.val) THEN {Out(D, "weight_reprompt")}
    ELSE IF w.val = NaN /\ dia = "postgresql"
    THEN {Raise([D EXCEPT !.members[mi].onboarding_step = "height"], "DataError")}
    ELSE Advance(D, mi, "height", Put(data, "weight", w.val), "height_question")

\* _handle_height (no reply of the vocabulary has a "." in it)
HandleHeight(D, mi, content, data) ==
    LET f == ParseFloat(content)
        h == IntOfFloat(f.val)
    IN IF ~f.ok THEN {Out(D, "height_reprompt")}
       ELSE IF ~h.ok THEN
          IF h.exc = "ValueError" THEN {Out(D, "height_reprompt")} ELSE {Raise(D, h.exc)}
       ELSE IF h.val < MinHeight \/ h.val > MaxHeight THEN {Out(D, "height_reprompt")}
       ELSE Advance(D, mi, "age", Put(data, "height", h.val), "age_question")

\* (mutation of CompleteOnboarding: the step is set, the flag is not)
CompleteOnboardingStepOnly(mem, mi, data, age) ==
    [mem EXCEPT ![mi].onboarding_step = "completed",
                ![mi].profile = Dict({p \in data.items :
                                         p[1] \in {"goal", "diet_pref", "weight", "height"}}
                                     \cup {<<"age", age>>})]

\* complete_onboarding with the answers of flow_data and the age; profile
\* is the goal, diet, weight, height and age written to the member
CompleteOnboarding(mem, mi, data, age) ==
    [mem EXCEPT ![mi].onboarding_completed = TRUE,
                ![mi].onboarding_step = "completed",
                ![mi].profile = Dict({p \in data.items :
                                         p[1] \in {"goal", "diet_pref", "weight", "height"}}
                                     \cup {<<"age", age>>})]

\* _handle_age, complete_onboarding, clear_conversation_state
HandleAge(D, mi, content, data) ==
    LET a == ParseInt(content) IN
    IF ~a.ok THEN {Out(D, "age_reprompt")}
    ELSE IF a.val < MinAge \/ a.val > MaxAge THEN {Out(D, "age_reprompt")}
    ELSE {Out([D EXCEPT !.members = CompleteOnboarding(@, mi, data, a.val),
                        !.conv = ClearRows(@, D.members[mi].phone)],
              "all_set")}

\* OnboardingFlow.handle_step
OnboardingStep(D, ci, mi, content, dia) ==
    LET step == D.conv[ci].current_step
        data == OrEmpty(D.conv[ci].flow_data)
        outs == CASE step = "goal_selection"     -> HandleGoalSelection(D, mi, content, data)
                  [] step = "dietary_preference" -> HandleDietaryPreference(D, mi, content, data)
                  [] step = "weight"             -> HandleWeight(D, mi, content, data, dia)
                  [] step = "height"             -> HandleHeight(D, mi, content, data)
                  [] step = "age"                -> HandleAge(D, mi, content, data)
                  [] OTHER                       -> OnboardingStart(D, mi)
    IN {[o EXCEPT !.flow = "onboarding", !.step = step] : o \in outs}

\* (mutation of Resume: the conversation state is created at the first step,
\* whatever step the member has stored)
ResumeAtFirstStep(D, mi, content, dia) ==
    LET phone == D.members[mi].phone
        E == IF ConvRows(D.conv, phone) = {}
             THEN [D EXCEPT !.conv = SetRows(@, phone, "onboarding", "goal_selection",
                                             Dict({<<"name", D.members[mi].name>>}))]
             ELSE D
    IN OnboardingStep(E, The(ConvRows(E.conv, phone)), mi, content, dia)

\* OnboardingFlow.resume
Resume(D, mi, content, dia) ==
    LET phone == D.members[mi].phone
        step  == IF D.members[mi].onboarding_step = "" THEN "goal_selection"
                 ELSE D.members[mi].onboarding_step
        E == IF ConvRows(D.conv, phone) = {}
             THEN [D EXCEPT !.conv = SetRows(@, phone, "onboarding", step,
                                             Dict({<<"name", D.members[mi].name>>}))]
             ELSE D
    IN OnboardingStep(E, The(ConvRows(E.conv, phone)), mi, content, dia)

\* get_upcoming_classes(days=3): ids of the classes listed
Upcoming(cls, t) ==
    {i \in 1..Len(cls) : /\ cls[i].scheduled_at >= t
                         /\ cls[i].scheduled_at <= t + UpcomingMins
                         /\ ~cls[i].is_cancelled}

\* the rows a query ordered by scheduled_at may return first
Earliest(cls, S) == {i \in S : \A j \in S : cls[i].scheduled_at <= cls[j].scheduled_at}

\* the classes _suggest_similar_classes lists for a parsed request
Similar(cls, t, parse) ==
    {i \in 1..Len(cls) : /\ cls[i].scheduled_at >= t
                         /\ ~cls[i].is_cancelled
                         /\ parse.class_name # "" => LowerName(cls[i].name) = parse.class_name}

\* _find_matching_class: the rows .first() may return
FindMatchingClass(cls, t, parse) ==
    Earliest(cls, {i \in Similar(cls, t, parse) :
                      parse.time # NoTime =>
                         /\ cls[i].scheduled_at >= parse.time - MatchSlackMins
                         /\ cls[i].scheduled_at <= parse.time + MatchSlackMins})

\* _show_class_list
ShowClassList(D, mi, t) ==
    IF Upcoming(D.classes, t) = {} THEN {Out(D, "no_classes")}
    ELSE {Out([D EXCEPT !.conv = SetRows(@, D.members[mi].phone, "booking", "select_class",
                  Dict({<<"classes", {IdStr[i] : i \in Upcoming(D.classes, t)}>>}))],
              "class_list")}

\* the confirmation question for class c becomes the state of the flow
AskConfirmation(D, mi, data) ==
    Out([D EXCEPT !.conv = SetRows(@, D.members[mi].phone, "booking", "confirm", data)],
        "confirm_question")

\* (mutation of BookingStart: the class list is shown whatever was parsed)
BookingStartListOnly(D, mi, parse, t) == ShowClassList(D, mi, t)

\* BookingFlow.start with the message that opened the flow
BookingStart(D, mi, parse, t) ==
    IF ~parse.ok THEN ShowClassList(D, mi, t)
    ELSE IF FindMatchingClass(D.classes, t, parse) # {}
    THEN {AskConfirmation(D, mi, Dict({<<"selected_class_id", IdStr[c]>>})) :
             c \in FindMatchingClass(D.classes, t, parse)}
    ELSE IF Similar(D.classes, t, parse) # {}
    THEN {Out([D EXCEPT !.conv = SetRows(@, D.members[mi].phone, "booking", "select_class",
                  Dict({<<"classes", {IdStr[i] : i \in Similar(D.classes, t, parse)}>>}))],
              "similar_classes")}
    ELSE {Out(D, "no_similar_classes")}

\* _handle_class_selection: the ids (as strings) the reply can stand for
SelectedIds(D, content, parse, t) ==
    LET byId   == IF StartsWith(content, "class_") /\ StripClassPrefix(content) # ""
                  THEN {StripClassPrefix(content)} ELSE {}
        named  == {i \in Upcoming(D.classes, t) : Has(content, LowerName(D.classes[i].name))}
        byName == {IdStr[i] : i \in Earliest(D.classes, named)}
        byAi   == IF parse.ok
                  THEN {IdStr[i] : i \in FindMatchingClass(D.classes, t, parse)} ELSE {}
    IN IF byId # {} THEN byId ELSE IF byName # {} THEN byName ELSE byAi

\* _handle_class_selection
HandleClassSelection(D, ci, mi, content, parse, t) ==
    LET stored == D.conv[ci].flow_data IN
    IF SelectedIds(D, content, parse, t) = {} THEN ShowClassList(D, mi, t)
    ELSE {IF StrToId(s) \notin 1..Len(D.classes)
          THEN Out(D, "class_not_found")
          ELSE AskConfirmation(D, mi,
                   Persisted(stored, Put(OrEmpty(stored), "selected_class_id", s)))
          : s \in SelectedIds(D, content, parse, t)}

\* _handle_confirmation
HandleConfirmation(D, ci, mi, content, t, dia) ==
    LET cleared == [D EXCEPT !.conv = ClearRows(@, D.members[mi].phone)]
        chosen  == Get(OrEmpty(D.conv[ci].flow_data), "selected_class_id")
    IN
    IF \E k \in {"cancel", "no", "book_cancel"} : Has(content, k)
    THEN {Out(cleared, "booking_cancelled")}
    ELSE IF \E k \in {"confirm", "yes", "book_confirm", "book"} : Has(content, k)
    THEN IF chosen = {} THEN {Out(cleared, "something_went_wrong")}
         ELSE {IF o.res.raised THEN Raise(D, o.res.error)
               ELSE IF o.commit
               THEN Out([cleared EXCEPT
                            !.classes = WriteCounter(@, o.row.class_id, o.col, o.val),
                            !.bookings = Append(@, o.row)],
                        "booking_confirmation")
               ELSE IF o.res.conflict_name # "" THEN Out(cleared, "booking_conflict")
               ELSE Out(cleared, "booking_refused")
               : o \in BookOutcomes(D.classes, D.bookings, MemberIds[mi],
                                    StrToId(The(chosen)), t, dia)}
    ELSE {Out(D, "confirm_reprompt")}

\* BookingFlow.handle_step
BookingStep(D, ci, mi, content, parse, t, dia) ==
    LET step == D.conv[ci].current_step
        outs == CASE step = "select_class" -> HandleClassSelection(D, ci, mi, content, parse, t)
                  [] step = "confirm"      -> HandleConfirmation(D, ci, mi, content, t, dia)
                  [] OTHER                 -> ShowClassList(D, mi, t)
    IN {[o EXCEPT !.flow = "booking", !.step = step] : o \in outs}

\* _handle_active_member: the button replies of onboarding, else the intent
HandleActiveMember(D, mi, content, intent, parse, t, dia) ==
    IF StartsWith(content, "goal_") \/ StartsWith(content, "diet_")
    THEN Resume(D, mi, content, dia)
    ELSE {[o EXCEPT !.classified = TRUE] :
             o \in IF intent = "booking" THEN BookingStart(D, mi, parse, t)
                   ELSE {Out(D, "intent_reply")}}

\* record_checkin: the WeeklyCheckin row added for the member; weight and
\* energy are sets, empty for None
RecordCheckin(mem, mi, weight, energy, compliance) ==
    [mem EXCEPT ![mi].checkins = Append(@, [weight_kg |-> weight, energy_level |-> energy,
                                            diet_compliance |-> compliance])]

\* _handle_checkin_flow; the dict changed in place reaches the row only as
\* Persisted says, and a nan or inf written to it is no JSON for PostgreSQL
HandleCheckinFlow(D, ci, mi, content, dia) ==
    LET step   == D.conv[ci].current_step
        stored == D.conv[ci].flow_data
        data   == OrEmpty(stored)
        phone  == D.members[mi].phone
        w      == ParseFloat(content)
        e      == ParseInt(IF StartsWith(content, "energy_") THEN SplitEnergy(content)
                           ELSE content)
        save(next, d, sent) ==
            Out([D EXCEPT !.conv = SetRows(@, phone, "checkin", next, Persisted(stored, d))],
                sent)
    IN {[o EXCEPT !.flow = "checkin", !.step = step] : o \in
        CASE step = "weight" ->
               IF ~w.ok THEN {Out(D, "checkin_weight_reprompt")}
               ELSE IF /\ w.val \in {NaN, Infinity}
                       /\ dia = "postgresql"
                       /\ ~Truthy(stored)
               THEN {Raise(D, "DataError")}
               ELSE {save("energy", Put(data, "weight", w.val), "energy_question")}
          [] step = "energy" ->
               IF ~e.ok
               THEN IF StartsWith(content, "energy_") THEN {Raise(D, "ValueError")}
                    ELSE {Out(D, "checkin_energy_reprompt")}
               ELSE {save("compliance", Put(data, "energy", e.val), "compliance_question")}
          [] step = "compliance" ->
               {Out([D EXCEPT !.members =
                         RecordCheckin(@, mi, Get(data, "weight"), Get(data, "energy"),
                                       IF StartsWith(content, "diet_")
                                       THEN StripDietPrefix(content) ELSE "mostly"),
                              !.conv = ClearRows(@, phone)],
                    "checkin_complete")}
          [] OTHER -> {Out(D, "checkin_restart")}}

\* _continue_flow (mi = 0 stands for member = None, whose attributes the
\* step handlers cannot read)
ContinueFlow(D, ci, mi, content, intent, parse, t, dia) ==
    LET flow == D.conv[ci].current_flow IN
    CASE mi = 0              -> {Raise(D, "AttributeError")}
      [] flow = "onboarding" -> OnboardingStep(D, ci, mi, content, dia)
      [] flow = "booking"    -> BookingStep(D, ci, mi, content, parse, t, dia)
      [] flow = "checkin"    -> HandleCheckinFlow(D, ci, mi, content, dia)
      [] flow = "escalated"  -> {[Out(D, "escalated_notice") EXCEPT !.flow = "escalated"]}
      [] OTHER ->
           HandleActiveMember([D EXCEPT !.conv = ClearRows(@, D.conv[ci].phone)],
                              mi, content, intent, parse, t, dia)

\* (mutation of HandleMessage: the member's status is looked at before the
\* conversation state)
HandleMessageMemberFirst(D, req, t, dia) ==
    LET mem  == GetByPhone(D.members, req.from)
        rows == ConvRows(D.conv, req.from)
        tag(outs, r) == {[o EXCEPT !.route = r] : o \in outs}
    IN
    IF mem = {}
    THEN LET E == [D EXCEPT !.members =
                                CreateMember(@, req.from, NewMemberName(req.name))]
         IN tag(OnboardingStart(E, Len(E.members)), "start_onboarding")
    ELSE IF ~D.members[The(mem)].onboarding_completed
    THEN tag(Resume(D, The(mem), req.content, dia), "resume")
    ELSE tag(HandleActiveMember(D, The(mem), req.content, req.intent, req.parse, t, dia),
             "active_member")

\* MessageHandler.handle
HandleMessage(D, req, t, dia) ==
    LET mem  == GetByPhone(D.members, req.from)
        rows == ConvRows(D.conv, req.from)
        tag(outs, r) == {[o EXCEPT !.route = r] : o \in outs}
    IN
    IF rows # {} /\ D.conv[The(rows)].current_flow \notin {NoneValue, ""}
    THEN tag(ContinueFlow(D, The(rows), IF mem = {} THEN 0 ELSE The(mem),
                          req.content, req.intent, req.parse, t, dia), "continue_flow")
    ELSE IF mem = {}
    THEN LET E == [D EXCEPT !.members =
                                CreateMember(@, req.from, NewMemberName(req.name))]
         IN tag(OnboardingStart(E, Len(E.members)), "start_onboarding")
    ELSE IF ~D.members[The(mem)].onboarding_completed
    THEN tag(Resume(D, The(mem), req.content, dia), "resume")
    ELSE tag(HandleActiveMember(D, The(mem), req.content, req.intent, req.parse, t, dia),
             "active_member")

\* mark_for_escalation, called by receive_message for a known member
MarkForEscalation(mem, phone) ==
    [mem EXCEPT ![The(GetByPhone(mem, Normalize(phone)))].onboarding_step = "ESCALATE"]

\* The tables of the database as one value
Tables == [members |-> members, conv |-> conv, classes |-> classes, bookings |-> bookings]

\* What can fail around the handler while a request is served: the body is
\* not JSON, the payload carries no message, mark_as_read fails, the
\* classification raises, the reply cannot be sent
Faults == {"none", "json", "no_message", "mark_read", "classify", "send"}

\* (mutation of Caught: the exception leaves receive_message)
CaughtReraised(seen, exc) == [seen EXCEPT !.status = 500, !.raised = exc]

\* except Exception: log, return {"status": "error", ...} with status 200
Caught(seen, exc) == [seen EXCEPT !.status = 200, !.handled = "error", !.raised = exc]

\* receive_message behind its signature check, with the failure fault
\* happening at its step
ReceiveFaulty(req, fault) ==
    LET seen == [NoRequest EXCEPT !.from = req.from, !.content = req.content,
                                  !.message_id = req.message_id]
        keep == UNCHANGED <<classes, bookings, conv, members>>
    IN
    /\ UNCHANGED <<now, dialect, result, sessions, settings>>
    /\ IF ValidateSignature(settings.whatsapp_app_secret,
                            HeaderOf(req, settings.whatsapp_app_secret), Body(req)) = 403
       THEN /\ http' = [NoRequest EXCEPT !.status = 403]
            /\ keep
       ELSE IF fault = "json"
       THEN /\ http' = Caught(NoRequest, "JSONDecodeError")
            /\ keep
       ELSE IF fault = "no_message"
       THEN /\ http' = [NoRequest EXCEPT !.status = 200, !.handled = "ok"]
            /\ keep
       ELSE IF req.type # "text"
       THEN /\ http' = IF fault = "send"
                       THEN Caught(seen, "SendError")
                       ELSE [seen EXCEPT !.status = 200, !.handled = "media_rejection",
                                         !.sent = "media_response"]
            /\ keep
       ELSE IF fault = "classify"
       THEN /\ http' = Caught(seen, "ClassifyError")
            /\ keep
       ELSE IF Escalates(req.content)
       THEN /\ http' = IF fault = "send"
                       THEN Caught(seen, "SendError")
                       ELSE [seen EXCEPT !.status = 200, !.handled = "escalation",
                                         !.sent = "escalation_response"]
            /\ members' = IF GetByPhone(members, req.from) # {}
                          THEN MarkForEscalation(members, req.from) ELSE members
            /\ UNCHANGED <<classes, bookings, conv>>
       ELSE IF req.ambiguous
       THEN /\ http' = IF fault = "send"
                       THEN Caught(seen, "SendError")
                       ELSE [seen EXCEPT !.status = 200,
                                         !.handled = "ambiguity_clarification",
                                         !.sent = "ambiguity_response"]
            /\ keep
       ELSE \E o \in HandleMessage(Tables, req, now, dialect) :
            LET done == [seen EXCEPT !.route = o.route, !.flow = o.flow, !.step = o.step,
                                     !.classified = o.classified]
            IN
            /\ members' = o.db.members
            /\ conv' = o.db.conv
            /\ classes' = o.db.classes
            /\ bookings' = o.db.bookings
            /\ http' = IF o.raised # "" THEN Caught(done, o.raised)
                       ELSE IF fault = "send" /\ o.sent # "" THEN Caught(done, "SendError")
                       ELSE [done EXCEPT !.status = 200, !.handled = "ok", !.sent = o.sent]

\* receive_message when nothing around the handler fails
ReceiveMessage(req) == ReceiveFaulty(req, "none")

\* (mutation of WriteRows: the session writes back every row it holds)
WriteRowsWhole(cur, snap, new) == new

\* What a session that loaded the rows snap and holds them as new writes
\* to the table cur of members or conversation states: an UPDATE of each
\* row it changed, found by its phone, and an INSERT of the row it added
WriteRows(cur, snap, new) ==
    LET changed  == {i \in 1..Len(new) : i > Len(snap) \/ new[i] # snap[i]}
        source(j) == {i \in changed : new[i].phone = cur[j].phone}
        updated  == [j \in 1..Len(cur) |->
                        IF source(j) # {} THEN new[The(source(j))] ELSE cur[j]]
        added    == {i \in changed : \A j \in 1..Len(cur) : cur[j].phone # new[i].phone}
    IN IF added = {} THEN updated ELSE Append(updated, new[The(added)])

\* The same for classes and bookings, whose rows are found by their id
WriteById(cur, snap, new) ==
    [j \in 1..Len(cur) |->
        IF j <= Len(snap) /\ j <= Len(new) /\ new[j] # snap[j] THEN new[j] ELSE cur[j]]
    \o SubSeq(new, Len(snap) + 1, Len(new))

\* handle up to its first query: the session of worker w reads the tables
HandleBegin(w, req) ==
    /\ sessions[w].pc = "idle"
    /\ sessions' = [sessions EXCEPT ![w] = [pc |-> "handle", req |-> req, snap |-> Tables]]
    /\ UNCHANGED <<classes, bookings, now, dialect, result, conv, chat>>

\* handle from there to its last commit: the rows the handler changed are
\* written over whatever the tables hold by now
HandleEnd(w) ==
    LET s == sessions[w] IN
    /\ s.pc = "handle"
    /\ \E o \in HandleMessage(s.snap, s.req, now, dialect) :
          /\ members' = WriteRows(members, s.snap.members, o.db.members)
          /\ conv' = WriteRows(conv, s.snap.conv, o.db.conv)
          /\ classes' = WriteById(classes, s.snap.classes, o.db.classes)
          /\ bookings' = WriteById(bookings, s.snap.bookings, o.db.bookings)
          /\ http' = [NoRequest EXCEPT !.from = s.req.from, !.content = s.req.content,
                                       !.message_id = s.req.message_id, !.status = 200,
                                       !.handled = IF o.raised = "" THEN "ok" ELSE "error",
                                       !.route = o.route, !.flow = o.flow, !.step = o.step,
                                       !.classified = o.classified, !.sent = o.sent,
                                       !.raised = o.raised]
    /\ sessions' = [sessions EXCEPT ![w] = Idle]
    /\ UNCHANGED <<now, dialect, result, settings>>

\* POST /api/v1/members: a member created by the staff
RegisterMember(phone, name) ==
    /\ GetByPhone(members, phone) = {}
    /\ members' = CreateMember(members, phone, name)
    /\ UNCHANGED <<classes, bookings, now, dialect, result, sessions, conv, settings, http>>

\* _rule_based_classify on the vocabulary: a message with "book" in it asks
\* for a booking, the others are answered without state
RuleIntent(content) == IF Has(content, "book") THEN "booking" ELSE "faq"

\* The requests posted while no app secret is configured.  The classifier is
\* the rule-based one, or for "hi" a model that may answer any intent; the
\* second phone number only says "hi".
ChatRequests ==
    LET Request(f, c, i, n, p) ==
           [from |-> f, content |-> c, type |-> "text", message_id |-> i,
            header |-> "absent", ambiguous |-> FALSE, intent |-> n, parse |-> p,
            name |-> "Unknown"]
    IN UNION {{Request(<<"1">>, c, i, n, p) :
                  i \in MessageIds,
                  n \in IF c = "hi" THEN Intents ELSE {RuleIntent(c)},
                  p \in IF c = "book yoga" THEN ParseResults ELSE {NoParse}} :
              c \in Contents}
       \cup {Request(<<"2">>, "hi", 1, "faq", NoParse)}

\* The requests posted to a webhook with or without an app secret
HookRequests ==
    {[from |-> f, content |-> c, type |-> ty, message_id |-> 1, header |-> h,
      ambiguous |-> a, intent |-> "faq", parse |-> NoParse, name |-> "Asha"] :
        f \in Phones, c \in {"hi", "goal_weight_loss", "call me"}, ty \in MessageTypes,
        h \in HeaderKinds, a \in BOOLEAN}

\* The requests served while something fails: signed, unsigned and wrongly
\* signed, a greeting and a call for a human
FaultRequests ==
    {r \in HookRequests : r.header \in {"absent", "good", "wrong_key"}
                            /\ r.content \in {"hi", "call me"}}

\* The replies sent during a weekly check-in
CheckinRequests ==
    {[from |-> <<"1">>, content |-> c, type |-> "text", message_id |-> 1, header |-> "absent",
      ambiguous |-> FALSE, intent |-> "faq", parse |-> NoParse, name |-> "Unknown"] :
        c \in {"hi", "72", "nan", "energy_5", "energy_x", "diet_veg"}}

----------------------------------------------------------------------------
(* WhatsAppService._send, a coroutine run by a worker *)

\* what one client.post can end with: a response with its status code, a
\* timeout, or any other exception (connection refused, a body that is not
\* JSON)
PostResults ==
    {[kind |-> "status", code |-> c] : c \in {200, 302, 400, 499, 500, 503}}
    \cup {[kind |-> "timeout", code |-> 0], [kind |-> "error", code |-> 0]}

\* raise_for_status() and response.json() went through
IsSuccess(r) == r.kind = "status" /\ 200 <= r.code /\ r.code < 300

\* (mutation of IsClientError: the upper bound is inclusive)
IsClientErrorInclusive(r) == r.kind = "status" /\ 400 <= r.code /\ r.code <= 500

\* 400 <= e.response.status_code < 500
IsClientError(r) == r.kind = "status" /\ 400 <= r.code /\ r.code < 500

\* delay = RETRY_DELAY * (2 ** attempt)
Backoff(attempt) == RETRY_DELAY * 2 ^ attempt

\* a caller awaits _send(payload): the loop starts with attempt 0
SendBegin(w) ==
    /\ sessions[w].pc = "idle"
    /\ sessions' = [sessions EXCEPT ![w] =
                       [pc |-> "post", attempt |-> 0, last_exception |-> <<>>,
                        posts |-> <<>>, sleeps |-> <<>>, raised |-> <<>>]]
    /\ UNCHANGED <<classes, bookings, now, dialect, result, conv, chat>>

\* client.post of the current attempt ends with r; the except clauses decide
SendPost(w, r) ==
    LET s == sessions[w]
        t == [s EXCEPT !.posts = Append(@, r)]
    IN
    /\ s.pc = "post"
    /\ s.attempt < MAX_RETRIES
    /\ sessions' = [sessions EXCEPT ![w] =
          IF IsSuccess(r) THEN [t EXCEPT !.pc = "returned"]
          ELSE IF IsClientError(r) THEN [t EXCEPT !.pc = "raised", !.raised = <<r>>]
          ELSE IF s.attempt < MAX_RETRIES - 1
          THEN [t EXCEPT !.pc = "sleep", !.last_exception = <<r>>,
                         !.sleeps = Append(@, Backoff(s.attempt))]
          ELSE [t EXCEPT !.pc = "raised", !.last_exception = <<r>>, !.raised = <<r>>,
                         !.attempt = @ + 1]]
    /\ UNCHANGED <<classes, bookings, now, dialect, result, conv, chat>>

\* asyncio.sleep(delay) is over: continue with the next attempt
SendWake(w) ==
    /\ sessions[w].pc = "sleep"
    /\ sessions' = [sessions EXCEPT ![w].pc = "post", ![w].attempt = @ + 1]
    /\ UNCHANGED <<classes, bookings, now, dialect, result, conv, chat>>

\* the caller has the result or the exception
SendEnd(w) ==
    /\ sessions[w].pc \in {"returned", "raised"}
    /\ sessions' = [sessions EXCEPT ![w] = [pc |-> "idle"]]
    /\ UNCHANGED <<classes, bookings, now, dialect, result, conv, chat>>

----------------------------------------------------------------------------
(* The admin key in front of the classes router *)

\* What the deployment puts into the environment: ADMIN_API_KEY unset or
\* empty, set to an ASCII key, set to a key with a non-ASCII character
Environments ==
    [whatsapp_app_secret : {""}, admin_api_key : {"", "k3y", "cl<e-acute>"}]

\* Settings(): only the fields the class declares are read
LoadSettings(env) ==
    [f \in DOMAIN env \cap {"whatsapp_app_secret"} |-> env[f]]

\* the X-Admin-Key headers a client sends; api_key is None without header
NoHeader == [null |-> TRUE, value |-> ""]
AdminHeaders ==
    {NoHeader} \cup {[null |-> FALSE, value |-> v] : v \in {"", "k3y", "guess", "cl<e-acute>"}}

\* hmac.compare_digest on two str: TypeError unless both are ASCII
CompareDigest(a, b) ==
    IF a = "cl<e-acute>" \/ b = "cl<e-acute>" THEN "TypeError"
    ELSE IF a = b THEN "True" ELSE "False"

\* get_admin_api_key: the status of the answer (200: the endpoint runs)
\* and the detail of the refusal
GetAdminApiKey(cfg, header) ==
    IF "admin_api_key" \notin DOMAIN cfg
    THEN [status |-> 500, detail |-> "AttributeError"]
    ELSE IF cfg.admin_api_key = ""
    THEN [status |-> 500, detail |-> "Internal Server Error"]
    ELSE IF header.null \/ header.value = ""
    THEN [status |-> 401, detail |-> "Missing API Key"]
    ELSE IF CompareDigest(header.value, cfg.admin_api_key) = "TypeError"
    THEN [status |-> 500, detail |-> "TypeError"]
    ELSE IF CompareDigest(header.value, cfg.admin_api_key) = "False"
    THEN [status |-> 403, detail |-> "Invalid API Key"]
    ELSE [status |-> 200, detail |-> ""]

----------------------------------------------------------------------------
(* Specifications: calls made one after the other *)

\* The calls of BookingService with their arguments drawn from: the class
\* sessions cat (each created once), the members mem, at most maxC classes
\* and maxB bookings.
Calls(cat, mem, maxC, maxB) ==
    \/ \E c \in cat :
          /\ Len(classes) < maxC
          /\ \A i \in ClassIds : classes[i].name # c.name
          /\ CreateClass(c.name, c.scheduled_at, c.duration_mins, c.capacity)
    \/ \E m \in mem, c \in 1..maxC :
          /\ BookClass(m, c)
          /\ Len(bookings') <= maxB
    \/ \E m \in mem, b \in 1..maxB : CancelBooking(m, b, 0)
    \/ \E m \in mem, c \in 0..maxC : CancelBooking(m, 0, c)
    \/ \E c \in 1..maxC : CancelClass(c)
    \/ \E b \in 1..maxB, a \in BOOLEAN :
          /\ MarkAttendance(b, a)
          /\ Cardinality(Marked(bookings')) <= MaxMarked

\* Two class sessions, two members, the clock running
Next ==
    \/ Calls(Catalogue, TwoMembers, MaxClasses, MaxBookings)
    \/ Tick

Spec == Init /\ [][Next]_vars

\* One class session with a single seat, three members, four hours ahead
NextQueue == Calls(SingleSeat, Members, MaxClasses, MaxQueue)

SpecQueue == Init /\ [][NextQueue]_vars

\* Two class sessions that overlap, two members, four hours ahead
NextOverlap == Calls(Overlapping, TwoMembers, MaxClasses, MaxHeld)

SpecOverlap == Init /\ [][NextOverlap]_vars

\* Only book_class and cancel_booking on the classes staff created: Yoga
\* with one seat and HIIT with two, three members, the clock running
NextSeats ==
    \/ \E c \in Overlapping :
          /\ Len(classes) < MaxClasses
          /\ \A i \in ClassIds : classes[i].name # c.name
          /\ CreateClass(c.name, c.scheduled_at, c.duration_mins, c.capacity)
    \/ \E m \in Members, c \in 1..MaxClasses :
          /\ BookClass(m, c)
          /\ Len(bookings') <= MaxQueue
    \/ \E m \in Members, b \in 1..MaxQueue : CancelBooking(m, b, 0)
    \/ \E m \in Members, c \in 0..MaxClasses : CancelBooking(m, 0, c)
    \/ Tick

SpecSeats == Init /\ [][NextSeats]_vars

\* The webhook with or without an app secret, each request served while
\* one of the failures happens or none
NextFault == \E req \in FaultRequests, fault \in Faults : ReceiveFaulty(req, fault)

SpecFault == InitWith({"", "s3cret"}) /\ [][NextFault]_vars

\* Two workers sending messages; every post ends (the client has a timeout)
\* and every sleep ends
NextSend ==
    \E w \in Workers :
        \/ SendBegin(w)
        \/ \E r \in PostResults : SendPost(w, r)
        \/ SendWake(w)
        \/ SendEnd(w)

SpecSend ==
    /\ Init /\ [][NextSend]_vars
    /\ \A w \in Workers : WF_vars((\E r \in PostResults : SendPost(w, r)) \/ SendWake(w))

\* Two workers, one class session with a single seat, two members
NextConc ==
    \/ \E c \in SingleSeat :
          /\ Len(classes) < MaxClasses
          /\ \A i \in ClassIds : classes[i].name # c.name
          /\ CreateClass(c.name, c.scheduled_at, c.duration_mins, c.capacity)
    \/ \E w \in Workers, m \in TwoMembers, c \in 1..MaxClasses : BookBegin(w, m, c)
    \/ \E w \in Workers :
          /\ BookEnd(w)
          /\ Len(bookings') <= MaxBookings
    \/ \E w \in Workers, m \in TwoMembers, c \in 1..MaxClasses : CancelBegin(w, m, 0, c)
    \/ \E w \in Workers : CancelPromote(w)
    \/ \E w \in Workers : CancelEnd(w)

SpecConc == Init /\ [][NextConc]_vars

\* The conversation-state store on its own
NextConv ==
    \/ \E p \in RawPhones, f \in Flows, st \in Steps, d \in DataValues :
          SetConversationState(p, f, st, d)
    \/ \E p \in RawPhones : ClearConversationState(p)

SpecConv == Init /\ [][NextConv]_vars

\* The webhook without app secret, one class session with a single seat, a
\* member created by the first message and one the staff may register
NextChat ==
    \/ \E c \in SingleSeat :
          /\ Len(classes) < MaxClasses
          /\ \A i \in ClassIds : classes[i].name # c.name
          /\ CreateClass(c.name, c.scheduled_at, c.duration_mins, c.capacity)
    \/ RegisterMember(<<"2">>, "Asha")
    \/ \E req \in ChatRequests :
          /\ ReceiveMessage(req)
          /\ Len(bookings') <= MaxBookings

SpecChat == Init /\ [][NextChat]_vars

\* The weekly check-in of a member the staff registered: the flow is opened
\* by a set_conversation_state at step weight, then the member replies
NextCheckin ==
    \/ RegisterMember(<<"1">>, "Asha")
    \/ /\ \E i \in GetByPhone(members, <<"1">>) : Len(members[i].checkins) < MaxCheckins
       /\ SetConversationState(<<"1">>, "checkin", "weight", NoData)
    \/ \E req \in CheckinRequests : ReceiveMessage(req)

SpecCheckin == Init /\ [][NextCheckin]_vars

\* A conversation state whose step was overwritten with a value no flow
\* knows, for a member the staff registered, who then replies
NextCorrupt ==
    \/ RegisterMember(<<"1">>, "Asha")
    \/ \E c \in SingleSeat :
          /\ Len(classes) < MaxClasses
          /\ \A i \in ClassIds : classes[i].name # c.name
          /\ CreateClass(c.name, c.scheduled_at, c.duration_mins, c.capacity)
    \/ \E f \in Flows :
          /\ GetByPhone(members, <<"1">>) # {}
          /\ SetConversationState(<<"1">>, f, "pending", NoData)
    \/ \E req \in CheckinRequests : ReceiveMessage(req)

SpecCorrupt == Init /\ [][NextCorrupt]_vars

\* The messages of two phone numbers, each handled by its own worker
ParRequests(phone) ==
    {[from |-> phone, content |-> c, type |-> "text", message_id |-> 1, header |-> "absent",
      ambiguous |-> FALSE, intent |-> "faq", parse |-> NoParse, name |-> "Unknown"] :
        c \in {"hi", "goal_weight_loss", "diet_veg", "72"}}

\* Two workers that handle the messages of two phone numbers at once
NextPar ==
    \/ \E req \in ParRequests(<<"1">>) : HandleBegin("w1", req)
    \/ \E req \in ParRequests(<<"2">>) : HandleBegin("w2", req)
    \/ \E w \in Workers : HandleEnd(w)

SpecPar == Init /\ [][NextPar]_vars

\* a request to an endpoint of the classes router
AdminCall(header) ==
    LET a == GetAdminApiKey(settings, header) IN
    IF a.status = 200
    THEN Calls(SingleSeat, TwoMembers, MaxClasses, MaxBookings)
    ELSE /\ result' = [NoResult EXCEPT !.op = "get_admin_api_key", !.raised = TRUE,
                                       !.error = a.detail]
         /\ UNCHANGED <<classes, bookings, now, dialect, sessions, conv, chat>>

\* The application in a deployment: requests to the classes router with
\* and without key, messages of two phone numbers on the webhook
InitAdmin == \E env \in Environments : Init /\ settings = LoadSettings(env)

NextAdmin ==
    \/ \E header \in AdminHeaders : AdminCall(header)
    \/ \E req \in ParRequests(<<"1">>) \cup ParRequests(<<"2">>) : ReceiveMessage(req)

SpecAdmin == InitAdmin /\ [][NextAdmin]_vars

\* The webhook of a deployment with an app secret and of one without
NextHook == \E req \in HookRequests : ReceiveMessage(req)

SpecHook == InitWith({"", "s3cret"}) /\ [][NextHook]_vars

----------------------------------------------------------------------------
(* Properties *)

\* active bookings of member m for class c
Held(m, c) ==
    {i \in BookingIds : /\ bookings[i].member_id = m
                        /\ bookings[i].class_id = c
                        /\ bookings[i].status \in {"booked", "waitlist"}}

\* [scheduled_at, scheduled_at + duration) of a and of b intersect
Intersects(a, b) ==
    /\ a.scheduled_at < b.scheduled_at + b.duration_mins
    /\ b.scheduled_at < a.scheduled_at + a.duration_mins

WithStatus(c, st) == {i \in BookingIds : bookings[i].class_id = c /\ bookings[i].status = st}

\* C1: every class has 0 <= booked_count <= capacity, whatever calls were made
C1_CounterBounds ==
    \A c \in ClassIds :
        0 <= classes[c].booked_count /\ classes[c].booked_count <= classes[c].capacity

\* a cancellation has just promoted from the waitlist and the class is full again
C1_Witness ==
    /\ result.op = "cancel_booking" /\ result.success
    /\ classes[result.class_id].booked_count = classes[result.class_id].capacity
    /\ WithStatus(result.class_id, "cancelled") # {}

\* C2: the waitlisted bookings of a class have distinct positions that grow
\* with the order of creation
C2_WaitlistOrder ==
    \A i, j \in BookingIds :
        (/\ i < j
         /\ bookings[i].class_id = bookings[j].class_id
         /\ bookings[i].status = "waitlist"
         /\ bookings[j].status = "waitlist")
        => bookings[i].waitlist_position < bookings[j].waitlist_position

\* C3: no member holds active bookings for two classes whose intervals overlap
C3_NoOverlappingHoldings ==
    \A i, j \in BookingIds :
        (/\ bookings[i].member_id = bookings[j].member_id
         /\ bookings[i].class_id # bookings[j].class_id
         /\ bookings[i].status \in {"booked", "waitlist"}
         /\ bookings[j].status \in {"booked", "waitlist"})
        => ~Intersects(classes[bookings[i].class_id], classes[bookings[j].class_id])

\* C4: with different members booking the last seat at once, the members
\* that end with status booked never outnumber the capacity
C4_LastSeat ==
    \A c \in ClassIds :
        Cardinality({bookings[i].member_id : i \in WithStatus(c, "booked")})
            <= classes[c].capacity

\* C5: a booking leaves the waitlist for status booked only when no booking
\* of the class created before it is still waitlisted
C5_FifoPromotion ==
    [][\A i \in BookingIds :
          (bookings[i].status = "waitlist" /\ bookings'[i].status = "booked")
          => \A j \in 1..(i - 1) :
                ~(/\ bookings[j].class_id = bookings[i].class_id
                  /\ bookings[j].status = "waitlist")]_vars

\* C6: when a class becomes cancelled all its active bookings become
\* cancelled with it, and a cancelled class stays cancelled
C6_CancelClass ==
    [][\A c \in ClassIds :
          /\ (~classes[c].is_cancelled /\ classes'[c].is_cancelled)
                => \A i \in BookingIds :
                      (bookings[i].class_id = c
                         /\ bookings[i].status \in {"booked", "waitlist"})
                      => bookings'[i].status = "cancelled"
          /\ classes[c].is_cancelled => classes'[c].is_cancelled]_vars

\* C7: cancel_booking for an active booking whose class starts in less than
\* 4 hours returns a failure and leaves every class and booking as it was
C7_WindowRejects ==
    [][\A m \in Members, b \in BookingIds :
          (/\ b \in Held(m, bookings[b].class_id)
           /\ classes[bookings[b].class_id].scheduled_at - now < 4 * 60
           /\ CancelBooking(m, b, 0) \/ CancelBooking(m, 0, bookings[b].class_id))
          => /\ result'.op = "cancel_booking"
             /\ ~result'.success /\ ~result'.raised
             /\ classes' = classes
             /\ bookings' = bookings]_vars

\* a cancellation was refused while the class had a booked and a waitlisted
\* booking
C7_Witness ==
    /\ result.op = "cancel_booking"
    /\ result.error = "Cannot cancel within 4 hours of class"
    /\ \E c \in ClassIds : /\ WithStatus(c, "booked") # {}
                            /\ WithStatus(c, "waitlist") # {}
                            /\ classes[c].scheduled_at >= now

\* C8: book_class for a class that is neither started nor cancelled, by a
\* member holding an active booking for another class that overlaps it,
\* returns a conflict naming such a class and changes nothing
C8_ConflictRejected ==
    [][\A m \in Members, x \in ClassIds :
          LET others == {y \in ClassIds : /\ y # x
                                          /\ Held(m, y) # {}
                                          /\ Intersects(classes[x], classes[y])}
          IN (/\ others # {}
              /\ ~classes[x].is_cancelled
              /\ classes[x].scheduled_at > now
              /\ BookClass(m, x))
             => /\ result'.error = "Cannot book overlapping classes"
                /\ \E y \in others : /\ result'.conflict_name = classes[y].name
                                      /\ result'.conflict_time = classes[y].scheduled_at
                /\ classes' = classes
                /\ bookings' = bookings]_vars

AtMostOneHeld == \A m \in Members, c \in ClassIds : Cardinality(Held(m, c)) <= 1

Digits(p) == SelectSeq(p, LAMBDA x : x \in {"0", "1", "2", "3", "4", "5", "6", "7", "8", "9"})

\* C10: one row per identity at most; set_conversation_state on an identity
\* that has a row overwrites its flow, step and data and adds no row
C10_SingleRowUpsert ==
    /\ [](\A i, j \in 1..Len(conv) : i # j => Digits(conv[i].phone) # Digits(conv[j].phone))
    /\ [][\A p \in RawPhones, f \in Flows, st \in Steps, d \in DataValues :
             LET rows == {i \in 1..Len(conv) : Digits(conv[i].phone) = Digits(p)}
             IN (rows # {} /\ SetConversationState(p, f, st, d))
                => /\ Len(conv') = Len(conv)
                   /\ \A i \in rows :
                         /\ conv'[i].current_flow = f
                         /\ conv'[i].current_step = st
                         /\ conv'[i].flow_data = IF d.null THEN [null |-> FALSE, items |-> {}]
                                                          ELSE d]_vars

\* both identities have a row, the second one cleared, and the last call set
\* the first row, written under another spelling of the phone, to a new flow
C10_Witness ==
    /\ Len(conv) = 2
    /\ conv[2].current_flow = "None"
    /\ result.op = "set_conversation_state"
    /\ conv[1].current_flow = "checkin" /\ conv[1].flow_data.items = {<<"goal", "weight_loss">>}

\* C17: a successful book_class on a full class leaves booked_count alone,
\* adds 1 to waitlist_count and creates a waitlisted booking whose position
\* is the number of bookings of the class waitlisted before the call plus 1;
\* on a class with a free seat it creates a booked booking without position,
\* adds 1 to booked_count and leaves waitlist_count alone
C17_BookCounters ==
    [][\A m \in Members, c \in ClassIds :
          (BookClass(m, c) /\ result'.success)
          => LET b == bookings'[Len(bookings')] IN
             /\ Len(bookings') = Len(bookings) + 1
             /\ b.member_id = m /\ b.class_id = c
             /\ IF classes[c].booked_count = classes[c].capacity
                THEN /\ classes'[c].booked_count = classes[c].booked_count
                     /\ classes'[c].waitlist_count = classes[c].waitlist_count + 1
                     /\ b.status = "waitlist"
                     /\ b.waitlist_position = Cardinality(WithStatus(c, "waitlist")) + 1
                ELSE /\ classes'[c].booked_count = classes[c].booked_count + 1
                     /\ classes'[c].waitlist_count = classes[c].waitlist_count
                     /\ b.status = "booked"
                     /\ b.waitlist_position = 0]_vars

\* C18: a successful cancel_booking of a booked booking keeps booked_count
\* and lowers waitlist_count by 1 when the class had a waitlisted booking,
\* lowers booked_count by 1 and keeps waitlist_count when it had none; the
\* booking ends cancelled with a cancelled_at timestamp
C18_CancelCounters ==
    [][\A m \in Members, b \in BookingIds :
          LET c == bookings[b].class_id IN
          (/\ bookings[b].member_id = m
           /\ bookings[b].status = "booked"
           /\ CancelBooking(m, b, 0) \/ CancelBooking(m, 0, c)
           /\ result'.success)
          => /\ bookings'[b].status = "cancelled"
             /\ bookings'[b].cancelled_at = now
             /\ IF WithStatus(c, "waitlist") # {}
                THEN /\ classes'[c].booked_count = classes[c].booked_count
                     /\ classes'[c].waitlist_count = classes[c].waitlist_count - 1
                ELSE /\ classes'[c].booked_count = classes[c].booked_count - 1
                     /\ classes'[c].waitlist_count = classes[c].waitlist_count]_vars

\* a booked booking was cancelled at a known instant while another booking of
\* the class, once waitlisted, is now booked and a third is still waitlisted
C18_Witness ==
    /\ result.op = "cancel_booking" /\ result.success
    /\ \E i, j, k \in BookingIds :
          /\ bookings[i].class_id = result.class_id
          /\ bookings[j].class_id = result.class_id
          /\ bookings[k].class_id = result.class_id
          /\ bookings[i].status = "cancelled" /\ bookings[i].cancelled_at = now
          /\ bookings[i].waitlist_position = 0
          /\ i < j /\ bookings[j].status = "booked"
          /\ bookings[k].status = "waitlist"
    /\ classes[result.class_id].booked_count = 1
    /\ classes[result.class_id].waitlist_count = 1

\* C19: the promotion of a waitlisted booking by cancel_booking never becomes
\* visible in a committed state in which the booking being cancelled still
\* has status booked
C19_AtomicCancel ==
    [][\A w \in Workers, h \in BookingIds :
          (/\ CancelPromote(w)
           /\ bookings[h].status = "waitlist"
           /\ bookings'[h].status = "booked")
          => bookings'[sessions[w].k].status # "booked"]_vars

\* C20 as stated: book_class by a member holding an active booking for
\* another, non-cancelled class whose interval intersects the requested
\* class's interval fails with a conflict, whatever the durations
C20_OverlapComplete ==
    [][\A m \in Members, x \in ClassIds :
          LET others == {y \in ClassIds : /\ y # x
                                          /\ Held(m, y) # {}
                                          /\ ~classes[y].is_cancelled
                                          /\ Intersects(classes[x], classes[y])}
          IN (others # {} /\ BookClass(m, x))
             => /\ result'.error = "Cannot book overlapping classes"
                /\ bookings' = bookings]_vars

\* C20 as amended: the conflict is the answer when the requested class is
\* neither cancelled nor started and the member has no active booking for it
\* (those checks come first); in every case no booking is created
C20_OverlapCompleteOpen ==
    [][\A m \in Members, x \in ClassIds :
          LET others == {y \in ClassIds : /\ y # x
                                          /\ Held(m, y) # {}
                                          /\ ~classes[y].is_cancelled
                                          /\ Intersects(classes[x], classes[y])}
          IN (others # {} /\ BookClass(m, x))
             => /\ ~result'.success
                /\ bookings' = bookings
                /\ classes' = classes
                /\ (/\ ~classes[x].is_cancelled
                    /\ classes[x].scheduled_at >= now
                    /\ Held(m, x) = {})
                      => /\ result'.error = "Cannot book overlapping classes"
                         /\ \E y \in others :
                               result'.conflict_name = classes[y].name]_vars

\* a booking was refused for a class that starts more than 2 hours after the
\* start of the overlapping class the member holds
C20_Witness ==
    /\ result.error = "Cannot book overlapping classes"
    /\ \E x, y \in ClassIds :
          /\ result.conflict_name = classes[y].name
          /\ classes[y].scheduled_at < classes[x].scheduled_at - 2 * 60
          /\ Intersects(classes[x], classes[y])

----------------------------------------------------------------------------
(* Properties of message handling *)

\* conv_state and conv_state.current_flow, for the state of a phone number
ActiveFlow(rows, phone) ==
    \E r \in ConvRows(rows, phone) : rows[r].current_flow \notin {NoneValue, ""}

\* the request a step of the webhook has just answered is req, and
\* MessageHandler.handle received its message
Handled(req) ==
    /\ req.from = http'.from
    /\ req.content = http'.content
    /\ req.message_id = http'.message_id
    /\ ReceiveMessage(req)
    /\ http'.route # ""

\* C11: a message that handle receives for a phone number whose conversation
\* state has a current_flow goes to the step handler of that flow at its
\* current step, and neither intent classification nor a stateless intent
\* handler runs, whatever the content; "hours?" at step select_class of the
\* booking flow leaves the flow at booking
C11_FlowContinuity ==
    [][\A req \in ChatRequests :
          (Handled(req) /\ ActiveFlow(conv, req.from))
          => LET r == The(ConvRows(conv, req.from)) IN
             /\ http'.route = "continue_flow"
             /\ http'.flow = conv[r].current_flow
             /\ http'.step = conv[r].current_step
             /\ ~http'.classified
             /\ (/\ conv[r].current_flow = "booking"
                 /\ conv[r].current_step = "select_class"
                 /\ req.content = "hours?")
                   => conv'[r].current_flow = "booking"]_vars

\* "hours?" was answered by the step handler of select_class and the
\* conversation is still in the booking flow
C11_Witness ==
    /\ http.content = "hours?"
    /\ http.route = "continue_flow"
    /\ http.flow = "booking" /\ http.step = "select_class"
    /\ ~http.classified
    /\ \E r \in ConvRows(conv, http.from) : conv[r].current_flow = "booking"

\* C12: after handle received a message from a phone number with neither an
\* active flow nor a member, a member with that phone number exists whose
\* onboarding is not completed, and the conversation state of the phone
\* number is flow onboarding at step goal_selection, whatever the content
C12_NewLead ==
    [][\A req \in ChatRequests :
          (/\ Handled(req)
           /\ ~ActiveFlow(conv, req.from)
           /\ GetByPhone(members, req.from) = {})
          => /\ \E i \in GetByPhone(members', req.from) :
                   ~members'[i].onboarding_completed
             /\ \E r \in ConvRows(conv', req.from) :
                   /\ conv'[r].current_flow = "onboarding"
                   /\ conv'[r].current_step = "goal_selection"]_vars

\* a first message that is no greeting created the member and opened the
\* onboarding flow
C12_Witness ==
    /\ http.route = "start_onboarding"
    /\ http.content = "72"
    /\ \E i \in GetByPhone(members, http.from) : ~members[i].onboarding_completed
    /\ \E r \in ConvRows(conv, http.from) :
          /\ conv[r].current_flow = "onboarding"
          /\ conv[r].current_step = "goal_selection"

\* the steps of the onboarding flow in their order; NoneValue once cleared
OnboardingSteps == <<"goal_selection", "dietary_preference", "weight", "height", "age">>

StepAfter(step) ==
    IF step = "age" THEN NoneValue
    ELSE OnboardingSteps[1 + CHOOSE i \in 1..4 : OnboardingSteps[i] = step]

\* the reply passes the validation of the step: it names a goal or a diet,
\* or it is a number within the bounds of the step
PassesValidation(step, content) ==
    LET n == ParseInt(content) IN
    CASE step = "goal_selection"     -> Has(content, "goal_weight_loss")
      [] step = "dietary_preference" -> Has(content, "diet_veg")
      [] step = "weight"             -> n.ok /\ MinWeight <= n.val /\ n.val <= MaxWeight
      [] step = "height"             -> n.ok /\ MinHeight <= n.val /\ n.val <= MaxHeight
      [] step = "age"                -> n.ok /\ MinAge <= n.val /\ n.val <= MaxAge

\* the prompts that ask for the answer of a step again
Reprompts == {"goal_reprompt", "diet_reprompt", "weight_reprompt", "height_reprompt",
              "age_reprompt"}

\* C13: the current_step of a conversation in the onboarding flow changes
\* only to the next step of goal_selection, dietary_preference, weight,
\* height, age, cleared; and a reply that fails the validation of the step
\* leaves flow, step and flow_data as they are and is answered by a re-prompt
C13_OnboardingSteps ==
    [][/\ \A r \in 1..Len(conv) :
             (/\ conv[r].current_flow = "onboarding"
              /\ \E i \in 1..5 : OnboardingSteps[i] = conv[r].current_step
              /\ conv'[r].current_step # conv[r].current_step)
             => /\ conv'[r].current_step = StepAfter(conv[r].current_step)
                /\ conv'[r].current_flow =
                      IF conv[r].current_step = "age" THEN NoneValue ELSE "onboarding"
       /\ \A req \in ChatRequests :
             (/\ Handled(req)
              /\ ActiveFlow(conv, req.from)
              /\ LET r == The(ConvRows(conv, req.from)) IN
                    /\ conv[r].current_flow = "onboarding"
                    /\ \E i \in 1..5 : OnboardingSteps[i] = conv[r].current_step
                    /\ ~PassesValidation(conv[r].current_step, req.content))
             => /\ conv' = conv
                /\ http'.sent \in Reprompts
                /\ http'.raised = ""]_vars

\* the step a flow starts at
StartStep(flow) == IF flow = "onboarding" THEN "goal_selection" ELSE "select_class"

\* C14: when a step handler raises while handle processes a message, the
\* flow of the phone number is put back to its start step and a generic
\* retry prompt is the response that is sent
C14_HandlerFailure ==
    [][\A req \in ChatRequests :
          (/\ Handled(req)
           /\ ActiveFlow(conv, req.from)
           /\ http'.raised # "")
          => LET r == The(ConvRows(conv, req.from)) IN
             /\ http'.handled = "ok"
             /\ http'.sent = "retry_prompt"
             /\ conv'[r].current_flow = conv[r].current_flow
             /\ conv'[r].current_step = StartStep(conv[r].current_flow)]_vars

\* C15: a message delivered a second time, right after its first delivery
\* was handled, changes neither the conversation state nor members, classes
\* or bookings: the step it answered is the only one taken
C15_DuplicateDelivery ==
    [][\A req \in ChatRequests :
          (/\ http.status = 200 /\ http.route # ""
           /\ req.from = http.from
           /\ req.content = http.content
           /\ req.message_id = http.message_id
           /\ ReceiveMessage(req))
          => /\ conv' = conv
             /\ members' = members
             /\ bookings' = bookings
             /\ classes' = classes]_vars

\* C16: with an app secret configured, a POST to the webhook goes on to
\* message processing only if its X-Hub-Signature-256 header is "sha256="
\* followed by the HMAC-SHA256 of the body; any other request is answered
\* with 403 and changes no member, conversation, class or booking; with no
\* secret configured every request is processed
C16_SignatureGate ==
    [][\A req \in HookRequests :
          (/\ http'.status = 403 \/ (req.from = http'.from /\ req.content = http'.content)
           /\ ReceiveMessage(req))
          => LET secret == settings.whatsapp_app_secret IN
             IF secret # "" /\ HeaderOf(req, secret) # <<"sha256", Hmac(secret, Body(req))>>
             THEN /\ http'.status = 403
                  /\ members' = members /\ conv' = conv
                  /\ classes' = classes /\ bookings' = bookings
             ELSE /\ http'.status = 200
                  /\ http'.handled # ""]_vars

----------------------------------------------------------------------------
(* Further properties of the booking engine *)

\* C21: book_class for a class that is not cancelled and whose scheduled_at
\* is less than or equal to the current time, the instant scheduled_at = now
\* included, fails with "already started" and creates no booking
C21_StartedBoundary ==
    [][\A m \in Members, c \in ClassIds :
          (/\ ~classes[c].is_cancelled
           /\ classes[c].scheduled_at <= now
           /\ BookClass(m, c))
          => /\ ~result'.success
             /\ result'.error = "Class has already started"
             /\ bookings' = bookings]_vars

\* the call returned a failure and changed no class and no booking
FailedCleanly ==
    /\ ~result'.success
    /\ ~result'.raised
    /\ result'.error # ""
    /\ classes' = classes
    /\ bookings' = bookings

C23_MarkOnlyBooked ==
    [][\A b \in 1..MaxBookings, a \in BOOLEAN :
          (/\ result'.op = "mark_attendance"
           /\ b \in BookingIds
           /\ bookings[b].status # "booked"
           /\ MarkAttendance(b, a))
          => bookings'[b].status = bookings[b].status]_vars

\* C24: in every reachable state a booking has a waitlist position if and
\* only if its status is waitlist
C24_PositionIffWaitlisted ==
    \A b \in BookingIds :
        (bookings[b].waitlist_position # NoPosition) <=> (bookings[b].status = "waitlist")

\* C25: a successful cancel_booking of a waitlisted booking lowers the
\* waitlist_count of its class by exactly 1 and sets the status and
\* cancelled_at of that booking; booked_count, every other booking (nobody is
\* promoted) and the positions of the other waitlisted bookings stay as they are
C25_WaitlistedCancel ==
    [][(result'.op = "cancel_booking" /\ result'.success)
       => \A k \in BookingIds :
             (/\ bookings[k].status = "waitlist"
              /\ bookings'[k].status = "cancelled"
              /\ \E m \in Members, b \in 0..MaxQueue, c \in 0..MaxClasses :
                    CancelBooking(m, b, c))
             => /\ classes' = [classes EXCEPT ![bookings[k].class_id].waitlist_count = @ - 1]
                /\ bookings' = [bookings EXCEPT ![k].status = "cancelled",
                                                ![k].cancelled_at = now]]_vars

\* a waitlisted booking was cancelled while another one, behind it, stays
\* waitlisted at position 2 next to the booked one
C25_Witness ==
    /\ result.op = "cancel_booking"
    /\ result.success
    /\ \E k, j, h \in BookingIds :
          /\ bookings[k].status = "cancelled"
          /\ bookings[k].waitlist_position = 1
          /\ bookings[k].cancelled_at = now
          /\ bookings[j].status = "waitlist"
          /\ bookings[j].waitlist_position = 2
          /\ bookings[h].status = "booked"
          /\ bookings[j].class_id = bookings[k].class_id
          /\ bookings[h].class_id = bookings[k].class_id
          /\ classes[bookings[k].class_id].waitlist_count = 1
          /\ classes[bookings[k].class_id].booked_count = 1

----------------------------------------------------------------------------
(* Further properties of the conversation store *)

\* C26: clear_conversation_state on an identity sets current_flow,
\* current_step and flow_data of its row to null and keeps the row, which
\* get_conversation_state then returns without an active flow; on a row
\* already cleared, or on an identity without a row, it changes nothing
C26_ClearKeepsRow ==
    [][\A p \in RawPhones :
          LET rows == {i \in 1..Len(conv) : Digits(conv[i].phone) = Digits(p)}
          IN ClearConversationState(p)
             => /\ Len(conv') = Len(conv)
                /\ \A i \in 1..Len(conv) :
                      IF i \in rows
                      THEN conv'[i] = [phone |-> conv[i].phone, current_flow |-> NoneValue,
                                       current_step |-> NoneValue, flow_data |-> NoData]
                      ELSE conv'[i] = conv[i]
                /\ rows # {} => /\ ConvRows(conv', p) = rows
                                /\ \A i \in ConvRows(conv', p) :
                                      conv'[i].current_flow = NoneValue
                /\ (\A i \in rows : conv[i].current_flow = NoneValue) => conv' = conv]_vars

\* the last call cleared the row of one identity, which is still there without
\* flow, step and data, next to the row of the other identity, still in a flow
C26_Witness ==
    /\ result.op = "clear_conversation_state"
    /\ Len(conv) = 2
    /\ conv[1] = [phone |-> <<"1">>, current_flow |-> NoneValue,
                  current_step |-> NoneValue, flow_data |-> NoData]
    /\ conv[2].current_flow = "booking"
    /\ conv[2].flow_data.items = {<<"goal", "weight_loss">>}

----------------------------------------------------------------------------
(* Further properties of message handling *)

C28_Completion ==
    [][/\ \A req \in ChatRequests :
             (/\ req.from = http'.from
              /\ req.content = http'.content
              /\ PassesValidation("age", req.content)
              /\ \E r \in ConvRows(conv, req.from) :
                    conv[r].current_flow = "onboarding" /\ conv[r].current_step = "age"
              /\ Handled(req))
             => LET r == The(ConvRows(conv, req.from)) IN
                /\ \E i \in GetByPhone(members', req.from) :
                      /\ members'[i].onboarding_completed
                      /\ \A k \in {"goal", "diet_pref", "weight", "height"} :
                            /\ Get(conv[r].flow_data, k) # {}
                            /\ Get(members'[i].profile, k) = Get(conv[r].flow_data, k)
                      /\ Get(members'[i].profile, "age") = {ParseInt(req.content).val}
                /\ conv'[r].current_flow = NoneValue
                /\ conv'[r].current_step = NoneValue
                /\ ~ActiveFlow(conv', req.from)
       /\ \A r \in 1..Len(conv) :
             (conv[r].current_flow = "onboarding" /\ conv'[r].current_flow # "onboarding")
             => \E i \in GetByPhone(members', conv[r].phone) : members'[i].onboarding_completed
       /\ \A i \in 1..Len(members) :
             members[i].onboarding_completed => members'[i].onboarding_completed]_vars

\* the reply "72" at step age completed the member, who holds the five
\* answers, and cleared the flow
C28_Witness ==
    /\ http.route = "continue_flow"
    /\ http.flow = "onboarding" /\ http.step = "age"
    /\ http.content = "72"
    /\ http.sent = "all_set"
    /\ \E i \in GetByPhone(members, http.from) :
          /\ members[i].onboarding_completed
          /\ members[i].profile = Dict({<<"goal", "weight_loss">>, <<"diet_pref", "veg">>,
                                        <<"weight", 72>>, <<"height", 150>>, <<"age", 72>>})
    /\ \E r \in ConvRows(conv, http.from) : conv[r].current_flow = NoneValue


\* the words _handle_confirmation reads as a yes or a no
IsClearReply(content) ==
    \E k \in {"cancel", "no", "book_cancel", "confirm", "yes", "book_confirm", "book"} :
        Has(content, k)

\* C29: a conversation in the booking flow is at step select_class or
\* confirm and only moves select_class -> confirm -> cleared; a flow opened
\* by free text that resolves to a class starts at confirm with that class
\* selected, any other at select_class; a reply at select_class that
\* identifies no class keeps select_class, an unclear reply at confirm keeps
\* confirm
C29_BookingSteps ==
    [][/\ \A r \in 1..Len(conv') :
             conv'[r].current_flow = "booking"
             => conv'[r].current_step \in {"select_class", "confirm"}
       /\ \A r \in 1..Len(conv) :
             conv[r].current_flow = "booking"
             => \/ conv'[r].current_flow = "booking"
                   /\ conv'[r].current_step \in {conv[r].current_step, "confirm"}
                \/ /\ conv[r].current_step = "confirm"
                   /\ conv'[r].current_flow = NoneValue
                   /\ conv'[r].current_step = NoneValue
       /\ \A req \in ChatRequests :
             (/\ req.from = http'.from
              /\ req.content = http'.content
              /\ ~ActiveFlow(conv, req.from)
              /\ \E r \in ConvRows(conv', req.from) : conv'[r].current_flow = "booking"
              /\ Handled(req))
             => LET r == The(ConvRows(conv', req.from))
                    found == IF req.parse.ok
                             THEN FindMatchingClass(classes, now, req.parse) ELSE {}
                IN IF found # {}
                   THEN /\ conv'[r].current_step = "confirm"
                        /\ \E c \in found :
                              Get(conv'[r].flow_data, "selected_class_id") = {IdStr[c]}
                   ELSE conv'[r].current_step = "select_class"
       /\ \A req \in ChatRequests :
             (/\ req.from = http'.from
              /\ req.content = http'.content
              /\ \E r \in ConvRows(conv, req.from) : conv[r].current_flow = "booking"
              /\ Handled(req))
             => LET r == The(ConvRows(conv, req.from)) IN
                /\ (/\ conv[r].current_step = "select_class"
                    /\ SelectedIds(Tables, req.content, req.parse, now) = {})
                   => /\ conv'[r].current_flow = "booking"
                      /\ conv'[r].current_step = "select_class"
                /\ (conv[r].current_step = "confirm" /\ ~IsClearReply(req.content))
                   => conv'[r] = conv[r]]_vars

\* "book yoga", parsed as the Yoga class, opened the booking flow at step
\* confirm with class 1 selected
C29_Witness ==
    /\ http.route = "active_member"
    /\ http.content = "book yoga"
    /\ http.classified
    /\ \E r \in ConvRows(conv, http.from) :
          /\ conv[r].current_flow = "booking"
          /\ conv[r].current_step = "confirm"
          /\ Get(conv[r].flow_data, "selected_class_id") = {IdStr[1]}


\* the steps of the check-in flow in their order; NoneValue once cleared
CheckinSteps == <<"weight", "energy", "compliance">>

CheckinStepAfter(step) ==
    CASE step = "weight" -> "energy"
      [] step = "energy" -> "compliance"
      [] OTHER           -> NoneValue

\* the number a reply of the check-in stands for ("energy_5" is the button
\* for 5), as a set: empty when the reply is no number
CheckinNumber(content) ==
    LET n == ParseInt(IF content = "energy_5" THEN "5" ELSE content)
    IN IF n.ok THEN {n.val} ELSE {}

\* C30: a conversation in the check-in flow moves weight -> energy ->
\* compliance -> cleared, one step per accepted reply, each accepted number
\* kept in flow_data; a reply at weight or energy that is no number leaves
\* flow, step and flow_data as they are and is answered by a re-prompt; and
\* the check-in is recorded once, at the compliance step, with the weight and
\* the energy collected before
C30_CheckinSteps ==
    [][\A req \in CheckinRequests :
          (/\ \E r \in ConvRows(conv, req.from) :
                 /\ conv[r].current_flow = "checkin"
                 /\ \E k \in 1..3 : CheckinSteps[k] = conv[r].current_step
           /\ Handled(req))
          => LET r    == The(ConvRows(conv, req.from))
                 i    == The(GetByPhone(members, req.from))
                 step == conv[r].current_step
                 n    == CheckinNumber(req.content)
             IN
             /\ conv'[r].current_step \in {step, CheckinStepAfter(step)}
             /\ conv'[r].current_flow = IF conv'[r].current_step = NoneValue
                                        THEN NoneValue ELSE "checkin"
             /\ (step \in {"weight", "energy"} /\ n = {})
                   => /\ conv' = conv
                      /\ http'.sent \in {"checkin_weight_reprompt", "checkin_energy_reprompt"}
                      /\ http'.raised = ""
             /\ (step \in {"weight", "energy"} /\ n # {})
                   => /\ conv'[r].current_step = CheckinStepAfter(step)
                      /\ Get(conv'[r].flow_data, step) = n
                      /\ step = "energy" =>
                            Get(conv'[r].flow_data, "weight") = Get(conv[r].flow_data, "weight")
             /\ IF step = "compliance"
                THEN /\ Len(members'[i].checkins) = Len(members[i].checkins) + 1
                     /\ LET rec == members'[i].checkins[Len(members'[i].checkins)] IN
                        /\ rec.weight_kg # {}
                        /\ rec.energy_level # {}
                        /\ rec.weight_kg = Get(conv[r].flow_data, "weight")
                        /\ rec.energy_level = Get(conv[r].flow_data, "energy")
                     /\ conv'[r].current_step = NoneValue
                ELSE members'[i].checkins = members[i].checkins]_vars


\* the step names of a flow, and the step it starts at
StepNames(flow) ==
    CASE flow = "onboarding" -> {"goal_selection", "dietary_preference", "weight", "height", "age"}
      [] flow = "booking"    -> {"select_class", "confirm"}
      [] flow = "checkin"    -> {"weight", "energy", "compliance"}

InitialStep(flow) ==
    CASE flow = "onboarding" -> "goal_selection"
      [] flow = "booking"    -> "select_class"
      [] flow = "checkin"    -> "weight"

\* C31: when the stored step of a conversation in the onboarding, booking
\* or check-in flow is none of the step names of that flow, handling the
\* next message raises nothing and leaves the conversation in that flow at
\* its initial step
C31_UnknownStepResets ==
    [][\A req \in CheckinRequests :
          (/\ req.content = http'.content
           /\ GetByPhone(members, req.from) # {}
           /\ \E r \in ConvRows(conv, req.from) :
                 /\ conv[r].current_flow \in Flows
                 /\ conv[r].current_step \notin StepNames(conv[r].current_flow)
           /\ Handled(req))
          => LET r == The(ConvRows(conv, req.from)) IN
             /\ http'.raised = ""
             /\ conv'[r].current_flow = conv[r].current_flow
             /\ conv'[r].current_step = InitialStep(conv[r].current_flow)]_vars

\* C32: a message from a phone number without active flow whose member
\* has completed onboarding is dispatched by its classified intent; only the
\* booking intent opens a flow (booking), every other handler leaves the
\* conversation state as it is, and no content opens the onboarding flow
C32_ActiveMemberDispatch ==
    [][\A req \in ChatRequests :
          (/\ req.from = http'.from
           /\ req.content = http'.content
           /\ ~ActiveFlow(conv, req.from)
           /\ \E i \in GetByPhone(members, req.from) : members[i].onboarding_completed
           /\ Handled(req))
          => /\ http'.route = "active_member"
             /\ http'.classified
             /\ req.intent # "booking" => conv' = conv
             /\ \A r \in ConvRows(conv', req.from) :
                   /\ conv'[r].current_flow # "onboarding"
                   /\ conv'[r].current_flow \notin {NoneValue, ""}
                         => conv'[r].current_flow = "booking" /\ req.intent = "booking"]_vars

\* C33: handling a message of one phone number changes neither the
\* conversation state nor the member of another phone number, and when the
\* messages of two phone numbers are handled at once, each handler leaves the
\* tables as it would have, had it run alone after what was committed before
C33_Independence ==
    [][\A w \in Workers :
          (sessions[w].pc = "handle" /\ sessions'[w].pc = "idle")
          => LET req == sessions[w].req IN
             /\ \A j \in 1..Len(conv) :
                   conv[j].phone # Normalize(req.from) => conv'[j] = conv[j]
             /\ \A j \in 1..Len(members) :
                   members[j].phone # Normalize(req.from) => members'[j] = members[j]
             /\ \E o \in HandleMessage(Tables, req, now, dialect) :
                   /\ o.db = [members |-> members', conv |-> conv',
                              classes |-> classes', bookings |-> bookings']
                   /\ o.sent = http'.sent]_vars

\* the first phone number's reply moved its onboarding on while the second
\* worker, which had read the tables before that, has not written yet
C33_Witness ==
    /\ sessions["w2"].pc = "handle"
    /\ sessions["w2"].snap.conv # conv
    /\ Len(sessions["w2"].snap.members) = 2
    /\ http.from = <<"1">>
    /\ \E r \in ConvRows(conv, <<"1">>) : conv[r].current_step = "dietary_preference"
    /\ \E r \in ConvRows(conv, <<"2">>) : conv[r].current_step = "goal_selection"

\* C34: at step confirm of the booking flow a cancel reply clears the flow
\* without a call of book_class; a confirming reply calls book_class once
\* for the selected class and then clears the flow, whatever the result of
\* the booking; only an unclear reply keeps the flow at confirm
C34_Confirmation ==
    [][\A req \in ChatRequests :
          (/\ req.from = http'.from
           /\ req.content = http'.content
           /\ \E r \in ConvRows(conv, req.from) :
                 conv[r].current_flow = "booking" /\ conv[r].current_step = "confirm"
           /\ Handled(req))
          => LET r == The(ConvRows(conv, req.from)) IN
             IF \E k \in {"cancel", "no", "book_cancel"} : Has(req.content, k)
             THEN /\ http'.sent = "booking_cancelled"
                  /\ classes' = classes /\ bookings' = bookings
                  /\ ~ActiveFlow(conv', req.from)
             ELSE IF IsClearReply(req.content)
             THEN /\ http'.raised = ""
                  /\ http'.sent \in {"booking_confirmation", "booking_conflict",
                                     "booking_refused"}
                  /\ Len(bookings') <= Len(bookings) + 1
                  /\ ~ActiveFlow(conv', req.from)
             ELSE conv' = conv]_vars

\* C35: in every reachable state the waitlist_count of every class is the
\* number of bookings of that class with status waitlist
C35_WaitlistCountExact ==
    \A c \in ClassIds :
        classes[c].waitlist_count = Cardinality(WithStatus(c, "waitlist"))

\* C36: in every state reached by book_class and cancel_booking calls made
\* one at a time, a class that is not cancelled has no waitlisted booking
\* while booked_count < capacity
C36_NoFreeSeatWhileWaiting ==
    \A c \in ClassIds :
        (~classes[c].is_cancelled /\ classes[c].booked_count < classes[c].capacity)
        => WithStatus(c, "waitlist") = {}

\* a cancellation has freed the seat of a full class whose waitlist was not
\* empty: the head of the waitlist was promoted and another member still waits
C36_Witness ==
    /\ result.op = "cancel_booking" /\ result.success
    /\ WithStatus(result.class_id, "cancelled") # {}
    /\ WithStatus(result.class_id, "waitlist") # {}
    /\ classes[result.class_id].booked_count = classes[result.class_id].capacity
    /\ \E i \in WithStatus(result.class_id, "booked") :
          \E j \in WithStatus(result.class_id, "cancelled") : i > j

\* C37: a POST to the webhook that passes the signature check is answered
\* with status 200 whatever fails while it is served: the body says error
\* exactly when an exception was raised by the JSON decoding, the
\* classification, the handler or the sending of the reply; a failure of
\* mark_as_read alone raises nothing
C37_Always200 ==
    [][\A req \in FaultRequests, fault \in Faults :
          (/\ IF fault \in {"json", "no_message"}
                THEN http'.from = <<>>
                ELSE req.from = http'.from /\ req.content = http'.content
           /\ ValidateSignature(settings.whatsapp_app_secret,
                                HeaderOf(req, settings.whatsapp_app_secret),
                                Body(req)) # 403
           /\ ReceiveFaulty(req, fault))
          => /\ http'.status = 200
             /\ http'.raised # "" <=> http'.handled = "error"
             /\ (fault = "json" \/ (fault = "classify" /\ req.type = "text"))
                   => http'.handled = "error"
             /\ fault \in {"none", "mark_read", "no_message"}
                   => http'.raised \notin {"JSONDecodeError", "ClassifyError",
                                           "SendError"}]_vars

\* the handler stored the new member and the conversation state, and then
\* the reply could not be sent
C37_Witness ==
    /\ http.status = 200 /\ http.handled = "error" /\ http.raised = "SendError"
    /\ http.route = "start_onboarding"
    /\ settings.whatsapp_app_secret = "s3cret"
    /\ ActiveFlow(conv, http.from)

\* a 4xx response, and the posts that are answered by another attempt: a
\* timeout, an error, a response that is neither 2xx nor 4xx
Refused(r) == r.kind = "status" /\ r.code \in 400..499
Retried(r) == r.kind \in {"timeout", "error"} \/ (r.code \notin 200..299 /\ ~Refused(r))

\* what holds of a worker inside _send
SendShape(s) ==
    /\ Len(s.posts) <= MAX_RETRIES
    /\ \A i \in 1..Len(s.posts) - 1 : Retried(s.posts[i])
    /\ \A i \in 1..Len(s.sleeps) : s.sleeps[i] = <<1, 2>>[i]
    /\ s.pc = "post" => Len(s.sleeps) = Len(s.posts) /\ Len(s.posts) < MAX_RETRIES
    /\ s.pc = "sleep" => /\ Len(s.sleeps) = Len(s.posts)
                         /\ Retried(s.posts[Len(s.posts)])
    /\ s.pc = "returned" => /\ s.posts[Len(s.posts)].code \in 200..299
                            /\ Len(s.sleeps) = Len(s.posts) - 1
    /\ s.pc = "raised" =>
          /\ Len(s.sleeps) = Len(s.posts) - 1
          /\ s.raised = <<s.posts[Len(s.posts)]>>
          /\ \/ Refused(s.posts[Len(s.posts)])
             \/ Len(s.posts) = MAX_RETRIES /\ Retried(s.posts[Len(s.posts)])

\* C38: _send makes at most 3 posts and ends: it returns on the first
\* successful post, posts again after a timeout, a 5xx response or another
\* error, sleeping 1 s and then 2 s and not after the last post, raises a 4xx
\* error at once, and raises the last error after 3 failed posts
C38_SendRetries ==
    /\ [](\A w \in Workers : sessions[w].pc # "idle" => SendShape(sessions[w]))
    /\ \A w \in Workers :
          (sessions[w].pc = "post") ~> (sessions[w].pc \in {"returned", "raised"})

\* three posts failed with a timeout, a 503 and a 500, slept 1 s and 2 s
C38_Witness ==
    \E w \in Workers :
        /\ sessions[w].pc = "raised"
        /\ Len(sessions[w].posts) = MAX_RETRIES
        /\ sessions[w].posts[1].kind = "timeout"
        /\ sessions[w].posts[2].code = 503
        /\ sessions[w].raised = <<[kind |-> "status", code |-> 500]>>
        /\ sessions[w].sleeps = <<1, 2>>

\* C39: a request to the classes router runs an endpoint only when an admin
\* key is configured and the X-Admin-Key header equals it; without a
\* configured key every request is refused with 500, with one a missing
\* header is refused with 401 and a wrong key with 403; a refused request
\* changes nothing
C39_AdminGate ==
    [][\A env \in Environments, header \in AdminHeaders :
          (/\ http' = http
           /\ settings = LoadSettings(env)
           /\ AdminCall(header))
          => LET a == GetAdminApiKey(settings, header)
                 key == env.admin_api_key
             IN /\ a.status = 200 => key # "" /\ ~header.null /\ header.value = key
                /\ key = "" => a.status = 500
                /\ key # "" /\ header.null => a.status = 401
                /\ key # "" /\ ~header.null /\ header.value \notin {"", key}
                      => a.status = 403
                /\ a.status # 200 =>
                      /\ result'.op = "get_admin_api_key"
                      /\ UNCHANGED <<classes, bookings, members, conv>>]_vars

====
